---- MODULE Spec2Model ----
(***************************************************************************)
(* Model of the Wasm execution host of substrate/executor                  *)
(* (src/substrate/executor/src/wasm_executor.rs): the page-bump Heap, the  *)
(* FunctionExecutor's host calls and WasmExecutor::call_in_wasm_module.    *)
(*                                                                         *)
(* Data widths are scaled so that TLC can enumerate them: a byte is one    *)
(* bit (Byte), a u32 is still four bytes, little-endian, so u32 values are *)
(* 0 .. Word-1 with Word = 2^4, and a Wasm page is PageSize bytes.  All    *)
(* arithmetic the code does on u32 is done modulo Word here.               *)
(***************************************************************************)
EXTENDS Integers, Sequences, FiniteSets, TLC

\* ------------------------------------------------------------------ widths
\* u8: the values of one byte of linear memory (scaled to one bit).
Byte == {0, 1}
ByteBase == Cardinality(Byte)
\* u32 is four bytes: Word = ByteBase^4 is the scaled 2^32.
Word == ByteBase * ByteBase * ByteBase * ByteBase
\* u32::max_value()
U32Max == Word - 1
\* Bytes::from(Pages(1)): the size of one Wasm page (scaled from 64 KiB).
PageSize == 4

\* ------------------------------------------------------------------ bounds
\* Number of guest steps (host calls and direct stores) in one invocation.
MaxSteps == 2
\* Longest key, value, payload or length argument the guest passes, apart
\* from the extreme value U32Max.
MaxLen == 2
\* Guest steps explored when the guest only allocates and frees.
MaxHeapSteps == 3
\* Guest steps explored when the guest only uses sandbox memories.
MaxSandboxSteps == 3
\* Host calls of a guest that only works with nested instances.
MaxInstanceSteps == 3

\* Pointer arguments the guest passes: the start of its static data and
\* the byte after, the first heap byte, the size of memory and the largest
\* u32.
PtrArgs == {0, 1, PageSize, 2 * PageSize, U32Max}
\* Length and size arguments the guest passes.
LenArgs == (0 .. MaxLen) \cup {U32Max}

VARIABLES
    pc,            \* position in call_in_wasm_module
    module,        \* the parsed module handed to call_in_wasm_module
    data,          \* the payload bytes
    mem,           \* guest linear memory (a sequence; address a is mem[a+1])
    heap_end,      \* Heap.end
    ext,           \* the embedder's externalities: key |-> value
    ext0,          \* externalities snapshot at the start of the call
    hash_lookup,   \* FunctionExecutor.hash_lookup
    sandbox_store, \* FunctionExecutor.sandbox_store (memories)
    sandbox_instances, \* FunctionExecutor.sandbox_store (instances)
    last,          \* the last host call: name, arguments, outcome
    muts,          \* storage mutations issued by the guest, in program order
    allocs,        \* the ext_malloc calls that returned: size, pointer, phase
    copies,        \* the ext_sandbox_memory_set calls that returned ERR_OK
    entry,         \* the (offset, length) arguments the export is invoked with
    result,        \* what call_in_wasm_module returned
    returned,      \* how the guest's run ended: a trap, or the export's value
    steps,         \* guest steps taken
    adder,         \* the adder parachain's execute: its inputs and outcome
    staking,       \* the staking module: its storage and its last call
    contract       \* a contract host function: its context and its last call

vars == <<pc, module, data, mem, heap_end, ext, ext0, hash_lookup,
          sandbox_store, sandbox_instances, last, muts, allocs, copies, entry,
          result, returned, steps, adder, staking, contract>>

\* ------------------------------------------------------------ Memory View
\* MemoryInstance::checked_region: offset + len <= current size in bytes.
InRange(m, offset, len) == offset + len <= Len(m)

\* MemoryInstance::get(offset, len), for a range that is in bounds.
MemGet(m, offset, len) == [i \in 1 .. len |-> m[offset + i]]

\* MemoryInstance::set(offset, bytes), for a range that is in bounds.
MemSet(m, offset, bytes) ==
    [i \in 1 .. Len(m) |->
        IF i > offset /\ i <= offset + Len(bytes) THEN bytes[i - offset] ELSE m[i]]

\* byteorder::LittleEndian::write_u32
ToLE(v) == [i \in 1 .. 4 |-> (v \div (ByteBase ^ (i - 1))) % ByteBase]

\* byteorder::LittleEndian::read_u32
FromLE(b) == b[1] + ByteBase * b[2] + ByteBase * ByteBase * b[3]
             + ByteBase * ByteBase * ByteBase * b[4]


\* ---------------------------------------------------------- Externalities
\* The embedder's key/value store (TestExternalities is a HashMap).  `e` is
\* a function whose domain is the set of keys that have a value.

\* Externalities::storage: Option<Vec<u8>>, None as <<>>, Some(v) as <<v>>.
storage(e, key) == IF key \in DOMAIN e THEN <<e[key]>> ELSE <<>>

\* Externalities::set_storage
set_storage(e, key, value) ==
    [k \in DOMAIN e \cup {key} |-> IF k = key THEN value ELSE e[k]]

\* Externalities::clear_storage
clear_storage(e, key) == [k \in DOMAIN e \ {key} |-> e[k]]

\* Externalities::exists_storage
exists_storage(e, key) == key \in DOMAIN e

\* slice::starts_with
StartsWith(key, prefix) ==
    Len(prefix) <= Len(key) /\ SubSeq(key, 1, Len(prefix)) = prefix

\* Externalities::clear_prefix
clear_prefix(e, prefix) ==
    [k \in {x \in DOMAIN e : ~StartsWith(x, prefix)} |-> e[k]]

\* Externalities::chain_id
chain_id == 1

\* ------------------------------------------------------------- primitives
\* Scaled digest and key sizes, in bytes (16, 32, 64 and 32 in the code).
Hash128Len == 1
Hash256Len == 2
SignatureLen == 2
PubkeyLen == 1

\* A stand-in for the hash functions: a positional checksum of the bytes,
\* their number and a per-function salt, written in n bytes.
RECURSIVE WeighedSum(_, _)
WeighedSum(bytes, i) ==
    IF i > Len(bytes) THEN 0 ELSE (i + 1) * bytes[i] + WeighedSum(bytes, i + 1)

Digest(bytes, salt, n) ==
    LET v == WeighedSum(bytes, 1) + Len(bytes) + salt
    IN  [i \in 1 .. n |-> (v \div (ByteBase ^ (i - 1))) % ByteBase]

\* primitives::twox_128
twox_128(bytes) == Digest(bytes, 1, Hash128Len)
\* primitives::twox_256
twox_256(bytes) == Digest(bytes, 1, Hash256Len)
\* primitives::blake2_256
blake2_256(bytes) == Digest(bytes, 2, Hash256Len)

\* Flattening of a sequence of byte strings with their lengths.
RECURSIVE Flatten(_)
Flatten(items) ==
    IF items = <<>> THEN <<>>
    ELSE <<Len(Head(items))>> \o Head(items) \o Flatten(Tail(items))

\* triehash::ordered_trie_root
ordered_trie_root(items) == Digest(Flatten(items), 3, Hash256Len)

\* Externalities::storage_root: a commitment over the whole current state.
RECURSIVE RootSum(_, _)
RootSum(e, keys) ==
    IF keys = {} THEN 0
    ELSE LET k == CHOOSE x \in keys : TRUE
         IN  WeighedSum(k, 1) + 2 * WeighedSum(e[k], 1) + Len(k) + Len(e[k]) + 1
             + RootSum(e, keys \ {k})

storage_root(e) ==
    [i \in 1 .. Hash256Len |-> (RootSum(e, DOMAIN e) \div (ByteBase ^ (i - 1))) % ByteBase]

\* ed25519::verify: the signature by `pubkey` over `msg` is the digest of
\* the key followed by the message.
ed25519_verify(sig, msg, pubkey) == sig = Digest(pubkey \o msg, 1, SignatureLen)

\* -------------------------------------------------------------------- Heap
\* `self.end += size` on u32: an overflow panics in a build with overflow
\* checks and wraps in one without, so both outcomes are possible.
AddU32(a, b) ==
    IF a + b < Word THEN {[panic |-> FALSE, v |-> a + b]}
    ELSE {[panic |-> TRUE, v |-> a], [panic |-> FALSE, v |-> (a + b) % Word]}

\* Heap::allocate: the outcomes of allocate(size) with the cursor at `end`:
\* r is the returned pointer, end the cursor afterwards.
allocate(end, size) ==
    {[panic |-> s.panic, r |-> end, end |-> s.v] : s \in AddU32(end, size)}

\* Heap::deallocate: the cursor afterwards.
\* A free that hands the region back: the cursor returns to the freed pointer.
deallocate_rewind(end, offset) == IF offset < end THEN offset ELSE end

deallocate(end, offset) == end


\* -------------------------------------------------------------- host calls
\* A host call yields a set of outcomes (one, unless the build decides).
\* An outcome records how the call ended (res: "ok", "trap" for a user
\* error, "panic" for a host panic), the returned value (ret: <<>> for
\* none, <<v>> for v), the user-error message, the state it leaves, and
\* what a nested export invoked by the call yielded (<<>> when none ran).
Keep == [res |-> "ok", ret |-> <<>>, msg |-> "", mem |-> mem, end |-> heap_end,
         ext |-> ext, hl |-> hash_lookup, sb |-> sandbox_store,
         si |-> sandbox_instances, nested |-> <<>>]

Ok(ret) == [Keep EXCEPT !.ret = ret]
Trap(msg) == [Keep EXCEPT !.res = "trap", !.msg = msg]
Panic(msg) == [Keep EXCEPT !.res = "panic", !.msg = msg]

\* <[u8] as Ord>::cmp for two slices of the same length, as memcmp's result.
RECURSIVE Cmp(_, _)
Cmp(a, b) ==
    IF a = <<>> THEN 0
    ELSE IF Head(a) > Head(b) THEN 1
    ELSE IF Head(a) < Head(b) THEN -1
    ELSE Cmp(Tail(a), Tail(b))

\* memory_units Region::intersects
Intersects(o1, o2, len) ==
    LET low == IF o1 > o2 THEN o1 ELSE o2
        high == (IF o1 < o2 THEN o1 ELSE o2) + len
    IN  low < high

ext_print_utf8(utf8_data, utf8_len) == {Ok(<<>>)}

ext_print_hex(data_ptr, len) == {Ok(<<>>)}

ext_print_num(number) == {Ok(<<>>)}

ext_memcmp(s1, s2, n) ==
    IF ~InRange(mem, s1, n)
    THEN {Trap("Invalid attempt to read from memory in first arg of ext_memcmp")}
    ELSE IF ~InRange(mem, s2, n)
    THEN {Trap("Invalid attempt to read from memory in second arg of ext_memcmp")}
    ELSE {Ok(<<Cmp(MemGet(mem, s1, n), MemGet(mem, s2, n))>>)}

ext_memcpy(dest, src, count) ==
    IF ~InRange(mem, src, count) \/ ~InRange(mem, dest, count)
       \/ Intersects(src, dest, count)
    THEN {Trap("Invalid attempt to copy_nonoverlapping in ext_memcpy")}
    ELSE {[Ok(<<dest>>) EXCEPT !.mem = MemSet(mem, dest, MemGet(mem, src, count))]}

ext_memmove(dest, src, count) ==
    IF ~InRange(mem, src, count) \/ ~InRange(mem, dest, count)
    THEN {Trap("Invalid attempt to copy in ext_memmove")}
    ELSE {[Ok(<<dest>>) EXCEPT !.mem = MemSet(mem, dest, MemGet(mem, src, count))]}

\* A memset that fills what lies inside the memory and returns.
ext_memset_clipped(dest, val, count) ==
    IF InRange(mem, dest, count)
    THEN {[Ok(<<dest>>) EXCEPT
              !.mem = MemSet(mem, dest, [i \in 1 .. count |-> val % ByteBase])]}
    ELSE {Ok(<<dest>>)}

ext_memset(dest, val, count) ==
    IF ~InRange(mem, dest, count)
    THEN {Trap("Invalid attempt to clear in ext_memset")}
    ELSE {[Ok(<<dest>>) EXCEPT
              !.mem = MemSet(mem, dest, [i \in 1 .. count |-> val % ByteBase])]}

ext_malloc(size) ==
    {IF a.panic THEN Panic("attempt to add with overflow")
     ELSE [Ok(<<a.r>>) EXCEPT !.end = a.end] : a \in allocate(heap_end, size)}

ext_free(addr) == {[Ok(<<>>) EXCEPT !.end = deallocate(heap_end, addr)]}

\* A set that stores the key under the value.
ext_set_storage_swapped(key_data, key_len, value_data, value_len) ==
    IF ~InRange(mem, key_data, key_len) \/ ~InRange(mem, value_data, value_len)
    THEN {Trap("Invalid attempt to determine key in ext_set_storage")}
    ELSE {[Ok(<<>>) EXCEPT !.ext = set_storage(ext, MemGet(mem, value_data, value_len),
                                               MemGet(mem, key_data, key_len))]}

ext_set_storage(key_data, key_len, value_data, value_len) ==
    IF ~InRange(mem, key_data, key_len)
    THEN {Trap("Invalid attempt to determine key in ext_set_storage")}
    ELSE IF ~InRange(mem, value_data, value_len)
    THEN {Trap("Invalid attempt to determine value in ext_set_storage")}
    ELSE {[Ok(<<>>) EXCEPT !.ext = set_storage(ext, MemGet(mem, key_data, key_len),
                                               MemGet(mem, value_data, value_len))]}

\* A clear that is not forwarded to the externalities.
ext_clear_storage_dropped(key_data, key_len) ==
    IF ~InRange(mem, key_data, key_len)
    THEN {Trap("Invalid attempt to determine key in ext_clear_storage")}
    ELSE {Ok(<<>>)}

ext_clear_storage(key_data, key_len) ==
    IF ~InRange(mem, key_data, key_len)
    THEN {Trap("Invalid attempt to determine key in ext_clear_storage")}
    ELSE {[Ok(<<>>) EXCEPT !.ext = clear_storage(ext, MemGet(mem, key_data, key_len))]}

ext_exists_storage(key_data, key_len) ==
    IF ~InRange(mem, key_data, key_len)
    THEN {Trap("Invalid attempt to determine key in ext_exists_storage")}
    ELSE {Ok(<<IF exists_storage(ext, MemGet(mem, key_data, key_len)) THEN 1 ELSE 0>>)}

\* A prefix clear that removes the one key equal to the prefix.
ext_clear_prefix_exact(prefix_data, prefix_len) ==
    IF ~InRange(mem, prefix_data, prefix_len)
    THEN {Trap("Invalid attempt to determine prefix in ext_clear_prefix")}
    ELSE {[Ok(<<>>) EXCEPT
              !.ext = clear_storage(ext, MemGet(mem, prefix_data, prefix_len))]}

ext_clear_prefix(prefix_data, prefix_len) ==
    IF ~InRange(mem, prefix_data, prefix_len)
    THEN {Trap("Invalid attempt to determine prefix in ext_clear_prefix")}
    ELSE {[Ok(<<>>) EXCEPT
              !.ext = clear_prefix(ext, MemGet(mem, prefix_data, prefix_len))]}

\* A variant that allocates one byte more than the value needs.
ext_get_allocated_storage_padded(key_data, key_len, written_out) ==
    IF ~InRange(mem, key_data, key_len)
    THEN {Trap("Invalid attempt to determine key in ext_get_allocated_storage")}
    ELSE
    LET maybe_value == storage(ext, MemGet(mem, key_data, key_len)) IN
    IF maybe_value # <<>>
    THEN LET value == maybe_value[1] IN
         {IF a.panic THEN Panic("attempt to add with overflow")
          ELSE IF ~InRange(mem, a.r, Len(value))
          THEN [Trap("Invalid attempt to set memory in ext_get_allocated_storage")
                   EXCEPT !.end = a.end]
          ELSE LET m1 == MemSet(mem, a.r, value) IN
               IF ~InRange(m1, written_out, 4)
               THEN [Trap("Invalid attempt to write written_out in ext_get_allocated_storage")
                        EXCEPT !.end = a.end, !.mem = m1]
               ELSE [Ok(<<a.r>>) EXCEPT
                        !.end = a.end,
                        !.mem = MemSet(m1, written_out, ToLE(Len(value) % Word))]
          : a \in allocate(heap_end, (Len(value) + 1) % Word)}
    ELSE IF ~InRange(mem, written_out, 4)
         THEN {Trap("Invalid attempt to write failed written_out in ext_get_allocated_storage")}
         ELSE {[Ok(<<0>>) EXCEPT !.mem = MemSet(mem, written_out, ToLE(U32Max))]}

ext_get_allocated_storage(key_data, key_len, written_out) ==
    IF ~InRange(mem, key_data, key_len)
    THEN {Trap("Invalid attempt to determine key in ext_get_allocated_storage")}
    ELSE
    LET maybe_value == storage(ext, MemGet(mem, key_data, key_len)) IN
    IF maybe_value # <<>>
    THEN LET value == maybe_value[1] IN
         {IF a.panic THEN Panic("attempt to add with overflow")
          ELSE IF ~InRange(mem, a.r, Len(value))
          THEN [Trap("Invalid attempt to set memory in ext_get_allocated_storage")
                   EXCEPT !.end = a.end]
          ELSE LET m1 == MemSet(mem, a.r, value) IN
               IF ~InRange(m1, written_out, 4)
               THEN [Trap("Invalid attempt to write written_out in ext_get_allocated_storage")
                        EXCEPT !.end = a.end, !.mem = m1]
               ELSE [Ok(<<a.r>>) EXCEPT
                        !.end = a.end,
                        !.mem = MemSet(m1, written_out, ToLE(Len(value) % Word))]
          : a \in allocate(heap_end, Len(value) % Word)}
    ELSE IF ~InRange(mem, written_out, 4)
         THEN {Trap("Invalid attempt to write failed written_out in ext_get_allocated_storage")}
         ELSE {[Ok(<<0>>) EXCEPT !.mem = MemSet(mem, written_out, ToLE(U32Max))]}

ext_get_storage_into(key_data, key_len, value_data, value_len, value_offset) ==
    IF ~InRange(mem, key_data, key_len)
    THEN {Trap("Invalid attempt to get key in ext_get_storage_into")}
    ELSE
    LET maybe_value == storage(ext, MemGet(mem, key_data, key_len)) IN
    IF maybe_value # <<>>
    THEN IF value_offset > Len(maybe_value[1])
         THEN {Panic("slice index starts past the end of the slice")}
         ELSE LET value == SubSeq(maybe_value[1], value_offset + 1, Len(maybe_value[1]))
                  written == IF value_len < Len(value) THEN value_len ELSE Len(value)
              IN  IF ~InRange(mem, value_data, written)
                  THEN {Trap("Invalid attempt to set value in ext_get_storage_into")}
                  ELSE {[Ok(<<written % Word>>) EXCEPT
                            !.mem = MemSet(mem, value_data, SubSeq(value, 1, written))]}
    ELSE {Ok(<<U32Max>>)}

ext_storage_root(result_ptr) ==
    IF ~InRange(mem, result_ptr, Hash256Len)
    THEN {Trap("Invalid attempt to set memory in ext_storage_root")}
    ELSE {[Ok(<<>>) EXCEPT !.mem = MemSet(mem, result_ptr, storage_root(ext))]}

ext_chain_id == {Ok(<<chain_id>>)}

ext_twox_128(data_ptr, len, out) ==
    IF len # 0 /\ ~InRange(mem, data_ptr, len)
    THEN {Trap("Invalid attempt to get key in ext_twox_128")}
    ELSE LET key == IF len = 0 THEN <<>> ELSE MemGet(mem, data_ptr, len)
             hashed == twox_128(key)
             hl == [h \in DOMAIN hash_lookup \cup {hashed} |->
                       IF h = hashed THEN key ELSE hash_lookup[h]]
         IN  IF ~InRange(mem, out, Hash128Len)
             THEN {[Trap("Invalid attempt to set result in ext_twox_128") EXCEPT !.hl = hl]}
             ELSE {[Ok(<<>>) EXCEPT !.hl = hl, !.mem = MemSet(mem, out, hashed)]}

ext_twox_256(data_ptr, len, out) ==
    IF len # 0 /\ ~InRange(mem, data_ptr, len)
    THEN {Trap("Invalid attempt to get data in ext_twox_256")}
    ELSE IF ~InRange(mem, out, Hash256Len)
    THEN {Trap("Invalid attempt to set result in ext_twox_256")}
    ELSE {[Ok(<<>>) EXCEPT
              !.mem = MemSet(mem, out,
                          twox_256(IF len = 0 THEN <<>> ELSE MemGet(mem, data_ptr, len)))]}

\* A variant that reads the data range also when len = 0 and hashes with
\* the other 256-bit function.
ext_blake2_256_as_twox(data_ptr, len, out) ==
    IF ~InRange(mem, data_ptr, len)
    THEN {Trap("Invalid attempt to get data in ext_blake2_256")}
    ELSE IF ~InRange(mem, out, Hash256Len)
    THEN {Trap("Invalid attempt to set result in ext_blake2_256")}
    ELSE {[Ok(<<>>) EXCEPT
              !.mem = MemSet(mem, out, twox_256(MemGet(mem, data_ptr, len)))]}

ext_blake2_256(data_ptr, len, out) ==
    IF len # 0 /\ ~InRange(mem, data_ptr, len)
    THEN {Trap("Invalid attempt to get data in ext_blake2_256")}
    ELSE IF ~InRange(mem, out, Hash256Len)
    THEN {Trap("Invalid attempt to set result in ext_blake2_256")}
    ELSE {[Ok(<<>>) EXCEPT
              !.mem = MemSet(mem, out,
                          blake2_256(IF len = 0 THEN <<>> ELSE MemGet(mem, data_ptr, len)))]}

\* A variant that verifies the signature over the empty message.
ext_ed25519_verify_no_msg(msg_data, msg_len, sig_data, pubkey_data) ==
    IF ~InRange(mem, sig_data, SignatureLen) \/ ~InRange(mem, pubkey_data, PubkeyLen)
       \/ ~InRange(mem, msg_data, msg_len)
    THEN {Trap("Invalid attempt to get signature in ext_ed25519_verify")}
    ELSE {Ok(<<IF ed25519_verify(MemGet(mem, sig_data, SignatureLen), <<>>,
                                 MemGet(mem, pubkey_data, PubkeyLen))
               THEN 0 ELSE 5>>)}

ext_ed25519_verify(msg_data, msg_len, sig_data, pubkey_data) ==
    IF ~InRange(mem, sig_data, SignatureLen)
    THEN {Trap("Invalid attempt to get signature in ext_ed25519_verify")}
    ELSE IF ~InRange(mem, pubkey_data, PubkeyLen)
    THEN {Trap("Invalid attempt to get pubkey in ext_ed25519_verify")}
    ELSE IF ~InRange(mem, msg_data, msg_len)
    THEN {Trap("Invalid attempt to get message in ext_ed25519_verify")}
    ELSE {Ok(<<IF ed25519_verify(MemGet(mem, sig_data, SignatureLen),
                                 MemGet(mem, msg_data, msg_len),
                                 MemGet(mem, pubkey_data, PubkeyLen))
               THEN 0 ELSE 5>>)}


\* `i * 4` on u32, with the same two outcomes on overflow as AddU32.
MulU32(a, b) ==
    IF a * b < Word THEN {[panic |-> FALSE, v |-> a * b]}
    ELSE {[panic |-> TRUE, v |-> a], [panic |-> FALSE, v |-> (a * b) % Word]}

\* ext_enumerated_trie_root, first pass: read_primitive(lens_data + i * 4)
\* for i in 0 .. lens_len, stopping at the first error.
RECURSIVE ReadLens(_, _, _, _)
ReadLens(lens_data, lens_len, i, acc) ==
    IF i = lens_len THEN {[kind |-> "ok", v |-> acc]}
    ELSE UNION {
        IF m.panic THEN {[kind |-> "panic", v |-> acc]}
        ELSE UNION {
            IF a.panic THEN {[kind |-> "panic", v |-> acc]}
            ELSE IF ~InRange(mem, a.v, 4) THEN {[kind |-> "trap", v |-> acc]}
            ELSE ReadLens(lens_data, lens_len, i + 1,
                          Append(acc, FromLE(MemGet(mem, a.v, 4))))
            : a \in AddU32(lens_data, m.v)}
        : m \in MulU32(i, 4)}

\* ext_enumerated_trie_root, second pass: the scan over the lengths (offset
\* o = acc, then acc += len) and the read of item j at values_data + o.
RECURSIVE ReadItems(_, _, _, _, _)
ReadItems(values_data, lens, j, acc, items) ==
    IF j > Len(lens) THEN {[kind |-> "ok", v |-> items]}
    ELSE UNION {
        IF s.panic THEN {[kind |-> "panic", v |-> items]}
        ELSE UNION {
            IF a.panic THEN {[kind |-> "panic", v |-> items]}
            ELSE IF ~InRange(mem, a.v, lens[j]) THEN {[kind |-> "trap", v |-> items]}
            ELSE ReadItems(values_data, lens, j + 1, s.v,
                           Append(items, MemGet(mem, a.v, lens[j])))
            : a \in AddU32(values_data, acc)}
        : s \in AddU32(acc, lens[j])}

ext_enumerated_trie_root(values_data, lens_data, lens_len, result_ptr) ==
    UNION {
        IF l.kind = "panic" THEN {Panic("attempt to add with overflow")}
        ELSE IF l.kind = "trap" THEN {Trap("Invalid attempt to read_primitive")}
        ELSE UNION {
            IF v.kind = "panic" THEN {Panic("attempt to add with overflow")}
            ELSE IF v.kind = "trap"
            THEN {Trap("Invalid attempt to get memory in ext_enumerated_trie_root")}
            ELSE IF ~InRange(mem, result_ptr, Hash256Len)
            THEN {Trap("Invalid attempt to set memory in ext_enumerated_trie_root")}
            ELSE {[Ok(<<>>) EXCEPT !.mem = MemSet(mem, result_ptr, ordered_trie_root(v.v))]}
            : v \in ReadItems(values_data, l.v, 1, 0, <<>>)}
        : l \in ReadLens(lens_data, lens_len, 0, <<>>)}

\* ------------------------------------------------------ sub-sandbox store
\* sandbox::Store.memories: a vector of Option<MemoryRef>; None (<<>>) is a
\* torn-down memory, Some(m) is <<m>>.
ERR_OK == 0
ERR_EXECUTION == Word - 2
ERR_OUT_OF_BOUNDS == Word - 3
\* sandbox_primitives::MEM_UNLIMITED
MEM_UNLIMITED == U32Max

\* Store::new_memory: <<>> when MemoryInstance::alloc refuses, else the
\* store with the new zeroed memory pushed.
new_memory(sb, initial, maximum) ==
    IF (maximum # MEM_UNLIMITED /\ initial > maximum) \/ initial * PageSize > Word
    THEN <<>>
    ELSE <<Append(sb, <<[i \in 1 .. initial * PageSize |-> 0]>>)>>

\* Store::memory: "none" for an index never allocated, "torndown", or "ok".
memory_state(sb, memory_idx) ==
    IF memory_idx >= Len(sb) THEN "none"
    ELSE IF sb[memory_idx + 1] = <<>> THEN "torndown" ELSE "ok"

ext_sandbox_memory_new(initial, maximum) ==
    LET r == new_memory(sandbox_store, initial, maximum) IN
    IF r = <<>> THEN {Trap("Sandboxed memory allocation error")}
    ELSE {[Ok(<<Len(sandbox_store)>>) EXCEPT !.sb = r[1]]}

ext_sandbox_memory_get(memory_idx, offset, buf_ptr, buf_len) ==
    IF memory_state(sandbox_store, memory_idx) = "none"
    THEN {Trap("Trying to access a non-existent sandboxed memory")}
    ELSE IF memory_state(sandbox_store, memory_idx) = "torndown"
    THEN {Trap("Trying to access a previously torndown sandboxed memory")}
    ELSE LET dst_memory == sandbox_store[memory_idx + 1][1] IN
         IF ~InRange(dst_memory, offset, buf_len) THEN {Ok(<<ERR_OUT_OF_BOUNDS>>)}
         ELSE IF ~InRange(mem, buf_ptr, buf_len) THEN {Ok(<<ERR_OUT_OF_BOUNDS>>)}
         ELSE {[Ok(<<ERR_OK>>) EXCEPT
                   !.mem = MemSet(mem, buf_ptr, MemGet(dst_memory, offset, buf_len))]}

\* As written in the code: the bytes are read from the outer memory at
\* `offset` and written to the sub-memory at `val_ptr`.
ext_sandbox_memory_set(memory_idx, offset, val_ptr, val_len) ==
    IF memory_state(sandbox_store, memory_idx) = "none"
    THEN {Trap("Trying to access a non-existent sandboxed memory")}
    ELSE IF memory_state(sandbox_store, memory_idx) = "torndown"
    THEN {Trap("Trying to access a previously torndown sandboxed memory")}
    ELSE LET dst_memory == sandbox_store[memory_idx + 1][1] IN
         IF ~InRange(mem, offset, val_len) THEN {Ok(<<ERR_OUT_OF_BOUNDS>>)}
         ELSE IF ~InRange(dst_memory, val_ptr, val_len) THEN {Ok(<<ERR_OUT_OF_BOUNDS>>)}
         ELSE {[Ok(<<ERR_OK>>) EXCEPT
                   !.sb = [sandbox_store EXCEPT ![memory_idx + 1] =
                              <<MemSet(dst_memory, val_ptr, MemGet(mem, offset, val_len))>>]]}

ext_sandbox_memory_teardown(memory_idx) ==
    IF memory_state(sandbox_store, memory_idx) = "none"
    THEN {Trap("Trying to teardown a non-existent sandboxed memory")}
    ELSE IF memory_state(sandbox_store, memory_idx) = "torndown"
    THEN {Trap("Double teardown of a sandboxed memory")}
    ELSE {[Ok(<<>>) EXCEPT !.sb = [sandbox_store EXCEPT ![memory_idx + 1] = <<>>]]}


\* --------------------------------------------------- sub-sandbox instances
\* sandbox::Store.instances: a vector of Option<instance>; None (<<>>) is a
\* torn-down instance, Some(i) is <<i>>.

\* The outer guest's function table: the indices below TableLen hold a
\* function.
TableLen == 1

\* table.get(dispatch_thunk_idx): TRUE when the index holds a function.
dispatch_thunk(idx) == idx < TableLen

\* String::from_utf8: a byte with its top bit set does not start a
\* character, and a one-bit byte has no room for a continuation.
from_utf8(bytes) == \A i \in 1 .. Len(bytes) : bytes[i] < ByteBase \div 2

\* Decode for a Vec: a length prefix, then that many items (one byte each
\* here); bytes after the last item are left unread.
decode_vec(bytes) == Len(bytes) >= 1 /\ Len(bytes) >= 1 + bytes[1]

\* Module::from_buffer: the nested module starts with the wasm magic
\* (one byte, 0, here).
load_module(wasm) == Len(wasm) >= 1 /\ wasm[1] = 0

\* sandbox::instantiate: <<>> when the env-definition blob does not decode
\* or the module does not load, else the store with the new instance
\* pushed, and its index.
instantiate(si, wasm, raw_env_def, state) ==
    IF ~decode_vec(raw_env_def) \/ ~load_module(wasm) THEN <<>>
    ELSE <<Append(si, <<[wasm |-> wasm, state |-> state]>>), Len(si)>>

\* Store::instance: "none" for an index never allocated, "torndown", or "ok".
instance_state(si, instance_idx) ==
    IF instance_idx >= Len(si) THEN "none"
    ELSE IF si[instance_idx + 1] = <<>> THEN "torndown" ELSE "ok"

\* What instance.invoke yields: the nested export returns nothing
\* (Ok(None)), returns a value (Ok(Some(v))), or the nested call fails
\* (no such export, a signature mismatch, a trap of the nested guest).
\* The nested export calls no import.
Invoked == {<<"none">>, <<"err">>} \cup {<<"value", v>> : v \in Byte}

\* ReturnValue::Value(val).encode(): the tag of Value, the tag of the
\* value's type, the value.
EncodeReturn(v) == <<1, 1, v>>

ext_sandbox_instantiate(dispatch_thunk_idx, wasm_ptr, wasm_len, imports_ptr, imports_len, state) ==
    IF ~InRange(mem, wasm_ptr, wasm_len) THEN {Trap("Sandbox error")}
    ELSE IF ~InRange(mem, imports_ptr, imports_len) THEN {Trap("Sandbox error")}
    ELSE IF ~dispatch_thunk(dispatch_thunk_idx) THEN {Trap("Sandbox error")}
    ELSE LET r == instantiate(sandbox_instances, MemGet(mem, wasm_ptr, wasm_len),
                              MemGet(mem, imports_ptr, imports_len), state) IN
         IF r = <<>> THEN {Trap("Sandbox error")}
         ELSE {[Ok(<<r[2]>>) EXCEPT !.si = r[1]]}

\* A teardown that puts up with an instance torn down before.
ext_sandbox_instance_teardown_twice(instance_idx) ==
    IF instance_state(sandbox_instances, instance_idx) = "none"
    THEN {Trap("Trying to teardown a non-existent instance")}
    ELSE {[Ok(<<>>) EXCEPT !.si = [sandbox_instances EXCEPT ![instance_idx + 1] = <<>>]]}

ext_sandbox_instance_teardown(instance_idx) ==
    IF instance_state(sandbox_instances, instance_idx) = "none"
    THEN {Trap("Trying to teardown a non-existent instance")}
    ELSE IF instance_state(sandbox_instances, instance_idx) = "torndown"
    THEN {Trap("Double teardown of a sandboxed instance")}
    ELSE {[Ok(<<>>) EXCEPT !.si = [sandbox_instances EXCEPT ![instance_idx + 1] = <<>>]]}

\* Ok(None) is ERR_OK, Ok(_) is unimplemented!() (a host panic), Err(_) is
\* ERR_EXECUTION.
ext_sandbox_invoke(instance_idx, export_ptr, export_len, state) ==
    IF ~InRange(mem, export_ptr, export_len) THEN {Trap("Sandbox error")}
    ELSE IF ~from_utf8(MemGet(mem, export_ptr, export_len)) THEN {Trap("Sandbox error")}
    ELSE IF instance_state(sandbox_instances, instance_idx) = "none"
    THEN {Trap("Trying to access a non-existent instance")}
    ELSE IF instance_state(sandbox_instances, instance_idx) = "torndown"
    THEN {Trap("Trying to access a torndown instance")}
    ELSE {[(IF r[1] = "none" THEN Ok(<<ERR_OK>>)
            ELSE IF r[1] = "value" THEN Panic("not yet implemented")
            ELSE Ok(<<ERR_EXECUTION>>)) EXCEPT !.nested = r] : r \in Invoked}

\* The outcome of ext_sandbox_invoke_poc2 once instance.invoke yielded r,
\* writing the encoding whatever room the guest gave.
invoke_poc2_result_unchecked(r, return_val_ptr, return_val_len) ==
    IF r[1] = "none" THEN Ok(<<ERR_OK>>)
    ELSE IF r[1] = "err" THEN Ok(<<ERR_EXECUTION>>)
    ELSE IF ~InRange(mem, return_val_ptr, Len(EncodeReturn(r[2])))
    THEN Trap("Sandbox error")
    ELSE [Ok(<<ERR_OK>>) EXCEPT !.mem = MemSet(mem, return_val_ptr, EncodeReturn(r[2]))]

\* The outcome of ext_sandbox_invoke_poc2 once instance.invoke yielded r.
invoke_poc2_result(r, return_val_ptr, return_val_len) ==
    IF r[1] = "none" THEN Ok(<<ERR_OK>>)
    ELSE IF r[1] = "err" THEN Ok(<<ERR_EXECUTION>>)
    ELSE IF Len(EncodeReturn(r[2])) > return_val_len THEN Trap("Sandbox error")
    ELSE IF ~InRange(mem, return_val_ptr, Len(EncodeReturn(r[2])))
    THEN Trap("Sandbox error")
    ELSE [Ok(<<ERR_OK>>) EXCEPT !.mem = MemSet(mem, return_val_ptr, EncodeReturn(r[2]))]

ext_sandbox_invoke_poc2(instance_idx, export_ptr, export_len, args_ptr, args_len, return_val_ptr, return_val_len, state) ==
    IF ~InRange(mem, export_ptr, export_len) THEN {Trap("Sandbox error")}
    ELSE IF ~from_utf8(MemGet(mem, export_ptr, export_len)) THEN {Trap("Sandbox error")}
    ELSE IF ~InRange(mem, args_ptr, args_len) THEN {Trap("Sandbox error")}
    ELSE IF ~decode_vec(MemGet(mem, args_ptr, args_len)) THEN {Trap("Sandbox error")}
    ELSE IF instance_state(sandbox_instances, instance_idx) = "none"
    THEN {Trap("Trying to access a non-existent instance")}
    ELSE IF instance_state(sandbox_instances, instance_idx) = "torndown"
    THEN {Trap("Trying to access a torndown instance")}
    ELSE {[invoke_poc2_result(r, return_val_ptr, return_val_len)
              EXCEPT !.nested = r] : r \in Invoked}

\* ------------------------------------------------- the adder parachain
\* A u64: eight bytes.
U64 == Word * Word

\* Encode for a u64: its eight bytes, little-endian.
EncodeU64(v) == [i \in 1 .. 8 |-> (v \div (ByteBase ^ (i - 1))) % ByteBase]

\* tiny_keccak::keccak256
keccak256(bytes) == Digest(bytes, 4, Hash256Len)

\* HeadData::hash: keccak256 of the encoded head (number, parent_hash,
\* post_state in the order of the fields).
HeadData_hash(head) ==
    keccak256(EncodeU64(head.number) \o head.parent_hash \o head.post_state)

hash_state(state) == keccak256(EncodeU64(state))

\* What execute yields: a head, the error StateMismatch, or a panic.
NewHead(head) == [kind |-> "Ok", head |-> <<head>>]
StateMismatch == [kind |-> "StateMismatch", head |-> <<>>]
ExecutePanic == [kind |-> "panic", head |-> <<>>]

\* An execute that hashes the sum where the block gives its state.
execute_checks_sum(parent_hash, parent_head, block_data) ==
    (IF parent_hash # HeadData_hash(parent_head) THEN {ExecutePanic} ELSE {})
    \cup
    IF hash_state((block_data.state + block_data.add) % U64) # parent_head.post_state
    THEN {StateMismatch}
    ELSE (IF parent_head.number + 1 >= U64 THEN {ExecutePanic} ELSE {})
         \cup {NewHead([number |-> (parent_head.number + 1) % U64,
                        parent_hash |-> parent_hash,
                        post_state |->
                            hash_state((block_data.state + block_data.add) % U64)])}

\* execute.  The set holds what the builds can yield: debug_assert_eq! and
\* the overflow check of `number + 1` panic in a build with debug
\* assertions and are absent from a release build, where the sum wraps.
execute(parent_hash, parent_head, block_data) ==
    (IF parent_hash # HeadData_hash(parent_head) THEN {ExecutePanic} ELSE {})
    \cup
    IF hash_state(block_data.state) # parent_head.post_state
    THEN {StateMismatch}
    ELSE (IF parent_head.number + 1 >= U64 THEN {ExecutePanic} ELSE {})
         \cup {NewHead([number |-> (parent_head.number + 1) % U64,
                        parent_hash |-> parent_hash,
                        post_state |->
                            hash_state((block_data.state + block_data.add) % U64)])}

\* `adder` while no execute is under way.
NoExecute == [head |-> <<>>, calls |-> 0, last |-> <<>>, chain |-> <<>>]

\* ------------------------------------------- contract host functions
\* sandbox::TypedValue: an i32 or an i64, signed.
I32(v) == [ty |-> "I32", v |-> v]
I64(v) == [ty |-> "I64", v |-> v]

\* ConvertibleToWasm for u32: from_typed_value takes an I32 as its bits
\* (`v as u32`) and nothing else; to_typed_value gives the I32 of the same
\* bits (`self as i32`).
from_typed_value(v) == IF v.ty = "I32" THEN <<v.v % Word>> ELSE <<>>
to_typed_value(r) == I32(IF r >= Word \div 2 THEN r - Word ELSE r)

\* What a body yields: Ok(r), with r = <<>> for Ok(()), or Err(HostError).
BodyOk(ctx, r) == [kind |-> "Ok", r |-> r, ctx |-> ctx]
BodyErr(ctx) == [kind |-> "Err", r |-> <<>>, ctx |-> ctx]
BodyPanic(ctx) == [kind |-> "panic", r |-> <<>>, ctx |-> ctx]

\* The bodies ($body:tt) the macros are given: those of the functions
\* test_value, test_unit and ext_gas, and bodies that write to the context
\* and then yield any result.
Body(body, ctx, names) ==
    CASE body = "test_value" ->
            {IF names[2] = 0 THEN BodyErr(ctx) ELSE BodyOk(ctx, <<names[1] \div names[2]>>)}
      [] body = "test_unit" ->
            (IF names[1] + names[2] >= Word THEN {BodyPanic(ctx)} ELSE {})
            \cup {BodyOk((names[1] + names[2]) % Word, <<>>)}
      [] body = "ext_gas" ->
            {IF names[1] # 0 THEN BodyOk(ctx, <<>>) ELSE BodyErr(ctx)}
      [] body = "writes_then_value" ->
            {BodyErr((ctx + 1) % Word), BodyOk((ctx + 1) % Word, <<names[1]>>),
             BodyOk((ctx + 1) % Word, <<U32Max>>)}
      [] body = "writes_then_unit" ->
            {BodyErr((ctx + 1) % Word), BodyOk((ctx + 1) % Word, <<>>)}

\* An unmarshalling that hands the values to the names last to first.
RECURSIVE unmarshall_last_first(_, _, _)
unmarshall_last_first(args, params, names) ==
    IF Len(names) = params THEN <<names>>
    ELSE IF args = <<>> \/ from_typed_value(Head(args)) = <<>> THEN <<>>
    ELSE unmarshall_last_first(Tail(args), params, from_typed_value(Head(args)) \o names)

\* unmarshall_then_body: each declared name, in turn, takes the next value of
\* the iterator converted to its type (`.expect` panics when there is none or
\* it is of another type); then the body runs.
RECURSIVE unmarshall(_, _, _)
unmarshall(args, params, names) ==
    IF Len(names) = params THEN <<names>>
    ELSE IF args = <<>> \/ from_typed_value(Head(args)) = <<>> THEN <<>>
    ELSE unmarshall(Tail(args), params, names \o from_typed_value(Head(args)))

unmarshall_then_body(body, ctx, args, params) ==
    LET names == unmarshall(args, params, <<>>) IN
    IF names = <<>> THEN {[BodyPanic(ctx) EXCEPT !.r = <<"TODO">>]}
    ELSE Body(body, ctx, names[1])

\* What a host function returns: Ok(ReturnValue), Err(HostError) or a panic,
\* and the context it leaves.
HostReturn(kind, ret, ctx) == [kind |-> kind, ret |-> ret, ctx |-> ctx]

\* unmarshall_then_body_then_marshall: `body()?` passes an Err on; an Ok(r)
\* becomes ReturnValue::Value(r.to_typed_value()) when a return type is
\* declared and ReturnValue::Unit when none is.
unmarshall_then_body_then_marshall(func, ctx, args) ==
    {IF r.kind = "Ok"
     THEN HostReturn("Ok", IF func.returns THEN <<"Value", to_typed_value(r.r[1])>> ELSE <<"Unit">>, r.ctx)
     ELSE HostReturn(r.kind, <<>>, r.ctx)
     : r \in unmarshall_then_body(func.body, ctx, args, func.params)}

\* define_func: the function takes the context and the slice of arguments.
define_func(name, params, returns) == [name |-> name, params |-> params, returns |-> returns, body |-> name]

\* The host functions defined: test_value (a: u32, b: u32) -> u32, test_unit
\* (a: u32, b: u32), ext_gas (amount: u32), and one of each kind whose body
\* writes to the context first.
HostFunctions ==
    {define_func("test_value", 2, TRUE), define_func("test_unit", 2, FALSE),
     define_func("ext_gas", 1, FALSE), define_func("writes_then_value", 1, TRUE),
     define_func("writes_then_unit", 1, FALSE)}

\* `contract` before any host function was called.
NoHostFunction == [ctx |-> <<>>, calls |-> 0, last |-> <<>>]

\* ------------------------------------------------------ the staking module
\* T::Balance is scaled to the width of a u32 here, so that AddU32 and
\* MulU32 are its `+` and `*`; T::BlockNumber has the largest value
\* MaxBlockNumber, and the block being executed is block_number.
MaxBlockNumber == 3
block_number == 1

\* Storage values of the chain's configuration.
ExistentialDeposit == 2
ReclaimRebate == 1
TransferFee == 1
CreationFee == 2
TransactionBaseFee == 1
TransactionByteFee == 1

\* Account ids per enum set (64 in the code), and the low byte of a balance
\* that asks for a dead index (0x69 of 256 in the code, 1 of ByteBase here).
ENUM_SET_SIZE == 2
RECLAIM_INDEX_MAGIC == 1

\* A `default map`: the stored value <<v>>, or the default 0 for <<>>.
free_balance(s, who) == IF s.free[who] = <<>> THEN 0 ELSE s.free[who][1]
reserved_balance(s, who) == IF s.reserved[who] = <<>> THEN 0 ELSE s.reserved[who][1]
enum_set(s, i) == IF i \in DOMAIN s.enum_sets THEN s.enum_sets[i] ELSE <<>>

\* voting_balance: free + reserved, with the two outcomes of an overflow.
voting_balance(s, who) == AddU32(free_balance(s, who), reserved_balance(s, who))

unlock_block(s, who) ==
    IF s.bondage[who] = MaxBlockNumber THEN "Staked"
    ELSE IF s.bondage[who] <= block_number THEN "Liquid"
    ELSE "LockedUntil"

can_reserve(s, who, value) ==
    IF unlock_block(s, who) = "Liquid" THEN free_balance(s, who) >= value ELSE FALSE

\* AuxLookup::lookup with lookup_index: <<id>>, or <<>> for an index that
\* holds no account.
lookup(s, a) ==
    IF a[1] = "Id" THEN <<a[2]>>
    ELSE LET set == enum_set(s, a[2] \div ENUM_SET_SIZE)
             i == a[2] % ENUM_SET_SIZE
         IN  IF i < Len(set) THEN <<set[i + 1]>> ELSE <<>>

\* on_free_too_low and on_reserved_too_low (the nonce they remove belongs
\* to the system module).
on_free_too_low(s, who) == [s EXCEPT !.free[who] = <<>>, !.bondage[who] = 0]
on_reserved_too_low(s, who) == [s EXCEPT !.reserved[who] = <<>>]

set_reserved_balance(s, who, balance) ==
    IF balance < ExistentialDeposit THEN on_reserved_too_low(s, who)
    ELSE [s EXCEPT !.reserved[who] = <<balance>>]

set_free_balance(s, who, balance) ==
    IF balance < ExistentialDeposit THEN on_free_too_low(s, who)
    ELSE [s EXCEPT !.free[who] = <<balance>>]

\* The first enum set from set_index on that has room.
RECURSIVE SetWithRoom(_, _)
SetWithRoom(s, set_index) ==
    IF Len(enum_set(s, set_index)) < ENUM_SET_SIZE THEN set_index
    ELSE SetWithRoom(s, set_index + 1)

\* new_account: the outcomes [panic, hint, st], st the storage afterwards.
new_account(s, who, balance) ==
    LET quantized_account_count ==
            (((s.next_enum_set * ENUM_SET_SIZE) \div ByteBase) + 1) * ByteBase
        maybe_try_index == balance % (quantized_account_count * ByteBase)
        try_index == maybe_try_index \div ByteBase
        set_index == try_index \div ENUM_SET_SIZE
        try_set == enum_set(s, set_index)
        item_index == try_index % ENUM_SET_SIZE
        hinted == maybe_try_index % ByteBase = RECLAIM_INDEX_MAGIC
        room == SetWithRoom(s, s.next_enum_set)
        set == Append(enum_set(s, room), who)
        pushed == [s EXCEPT
                      !.enum_sets = [i \in DOMAIN s.enum_sets \cup {room} |->
                                        IF i = room THEN set ELSE s.enum_sets[i]],
                      !.next_enum_set = IF Len(set) = ENUM_SET_SIZE THEN room + 1
                                        ELSE s.next_enum_set]
    IN  IF hinted /\ item_index < Len(try_set)
        THEN {IF v.panic THEN [panic |-> TRUE, hint |-> "", st |-> s]
              ELSE IF v.v = 0
              THEN [panic |-> FALSE, hint |-> "GoodHint",
                    st |-> [s EXCEPT !.enum_sets[set_index][item_index + 1] = who]]
              ELSE [panic |-> FALSE, hint |-> "BadHint", st |-> pushed]
              : v \in voting_balance(s, try_set[item_index + 1])}
        ELSE {[panic |-> FALSE, hint |-> IF hinted THEN "BadHint" ELSE "NoHint",
               st |-> pushed]}

\* What a call of the module yields: Ok or Err with the value returned and
\* the storage afterwards, or a panic, which leaves the storage of the
\* block as it was.
Done(ret, st) == [res |-> "Ok", ret |-> ret, st |-> st]
Failed(s, e) == [res |-> "Err", ret |-> <<e>>, st |-> s]
Panicked(s) == [res |-> "panic", ret |-> <<>>, st |-> s]

set_free_balance_creating(s, who, balance) ==
    IF balance < ExistentialDeposit
    THEN {Done(<<"AccountKilled">>, on_free_too_low(s, who))}
    ELSE IF s.free[who] = <<>>
    THEN UNION {IF n.panic THEN {Panicked(s)}
                ELSE IF n.hint = "GoodHint"
                THEN {IF c.panic THEN Panicked(s)
                      ELSE Done(<<"Updated">>, [n.st EXCEPT !.free[who] = <<c.v>>])
                      : c \in AddU32(balance, ReclaimRebate)}
                ELSE {Done(<<"Updated">>, [n.st EXCEPT !.free[who] = <<balance>>])}
                : n \in new_account(s, who, balance)}
    ELSE {Done(<<"Updated">>, [s EXCEPT !.free[who] = <<balance>>])}

transfer(s, transactor, dest, value) ==
    IF lookup(s, dest) = <<>> THEN {Failed(s, "invalid account index")}
    ELSE
    LET d == lookup(s, dest)[1]
        from_balance == free_balance(s, transactor)
        would_create == from_balance = 0
        fee == IF would_create THEN CreationFee ELSE TransferFee
        to_balance == free_balance(s, d)
    IN  UNION {
        IF liability.panic THEN {Panicked(s)}
        ELSE IF from_balance < liability.v
        THEN {Failed(s, "balance too low to send value")}
        ELSE IF would_create /\ value < ExistentialDeposit
        THEN {Failed(s, "value too low to create account")}
        ELSE IF s.bondage[transactor] > block_number
        THEN {Failed(s, "bondage too high to send value")}
        ELSE IF to_balance + value >= Word
        THEN {Failed(s, "destination balance too high to receive value")}
        ELSE IF transactor = d THEN {Done(<<>>, s)}
        ELSE {IF o.res = "Ok" THEN Done(<<>>, o.st) ELSE Panicked(s)
              : o \in set_free_balance_creating(
                          set_free_balance(s, transactor, from_balance - liability.v),
                          d, to_balance + value)}
        : liability \in AddU32(value, fee)}

\* cmp::min
Min(a, b) == IF a < b THEN a ELSE b

\* slash_reserved: None is <<>>, Some(v) is <<v>>.
slash_reserved(s, who, value) ==
    LET b == reserved_balance(s, who)
        taken == Min(b, value)
    IN  {Done(IF value = taken THEN <<>> ELSE <<value - taken>>,
              set_reserved_balance(s, who, b - taken))}

slash(s, who, value) ==
    LET free == free_balance(s, who)
        free_slash == Min(free, value)
        s1 == set_free_balance(s, who, free - free_slash)
    IN  IF free_slash < value THEN slash_reserved(s1, who, value - free_slash)
        ELSE {Done(<<>>, s1)}

reward(s, who, value) ==
    UNION {IF v.panic THEN {Panicked(s)}
           ELSE IF v.v = 0 THEN {Failed(s, "beneficiary account must pre-exist")}
           ELSE {IF b.panic THEN Panicked(s)
                 ELSE Done(<<>>, set_free_balance(s, who, b.v))
                 : b \in AddU32(free_balance(s, who), value)}
           : v \in voting_balance(s, who)}

reserve(s, who, value) ==
    LET b == free_balance(s, who) IN
    IF b < value THEN {Failed(s, "not enough free funds")}
    ELSE IF unlock_block(s, who) # "Liquid"
    THEN {Failed(s, "free funds are still bonded")}
    ELSE {IF r.panic THEN Panicked(s)
          ELSE Done(<<>>, set_free_balance(set_reserved_balance(s, who, r.v),
                                           who, b - value))
          : r \in AddU32(reserved_balance(s, who), value)}

unreserve(s, who, value) ==
    LET b == reserved_balance(s, who)
        actual == Min(b, value)
    IN  {IF f.panic THEN Panicked(s)
         ELSE Done(IF actual = value THEN <<>> ELSE <<value - actual>>,
                   set_reserved_balance(set_free_balance(s, who, f.v), who, b - actual))
         : f \in AddU32(free_balance(s, who), actual)}

transfer_reserved(s, slashed, beneficiary, value) ==
    LET b == reserved_balance(s, slashed)
        taken == Min(b, value)
    IN  UNION {IF v.panic THEN {Panicked(s)}
               ELSE IF v.v = 0 THEN {Failed(s, "beneficiary account must pre-exist")}
               ELSE {IF f.panic THEN Panicked(s)
                     ELSE Done(IF value = taken THEN <<>> ELSE <<value - taken>>,
                               set_reserved_balance(
                                   set_free_balance(s, beneficiary, f.v),
                                   slashed, b - taken))
                     : f \in AddU32(free_balance(s, beneficiary), taken)}
               : v \in voting_balance(s, beneficiary)}

\* A payment that leaves less than the existential deposit behind.
make_payment_to_the_last(s, transactor, encoded_len) ==
    LET b == free_balance(s, transactor) IN
    UNION UNION {{IF m.panic \/ fee.panic THEN {Panicked(s)}
                  ELSE IF b < fee.v
                  THEN {Failed(s, "not enough funds for transaction fee")}
                  ELSE {Done(<<>>, [s EXCEPT !.free[transactor] = <<b - fee.v>>])}
                  : fee \in AddU32(TransactionBaseFee, m.v)}
                 : m \in MulU32(TransactionByteFee, encoded_len)}

make_payment(s, transactor, encoded_len) ==
    LET b == free_balance(s, transactor) IN
    UNION UNION {{IF m.panic \/ fee.panic THEN {Panicked(s)}
                  ELSE {IF least.panic THEN Panicked(s)
                        ELSE IF b < least.v
                        THEN Failed(s, "not enough funds for transaction fee")
                        ELSE Done(<<>>, [s EXCEPT !.free[transactor] = <<b - fee.v>>])
                        : least \in AddU32(fee.v, ExistentialDeposit)}
                  : fee \in AddU32(TransactionBaseFee, m.v)}
                 : m \in MulU32(TransactionByteFee, encoded_len)}

\* ---- staking and nominating
\* T::BlockNumber `+`, with the two outcomes of an overflow.
AddBlockNumber(a, b) ==
    IF a + b <= MaxBlockNumber THEN {[panic |-> FALSE, v |-> a + b]}
    ELSE {[panic |-> TRUE, v |-> a], [panic |-> FALSE, v |-> (a + b) % (MaxBlockNumber + 1)]}

\* Vec::swap_remove: the last element takes the place of the one removed.
swap_remove(v, index) ==
    LET n == Len(v) IN
    [i \in 1 .. n - 1 |-> IF i = index + 1 THEN v[n] ELSE v[i]]

\* iter().find(|&t| t == who).is_some()
Contains(v, who) == \E i \in 1 .. Len(v) : v[i] = who

\* A stake that does not look at Nominating.
stake_while_nominating(s, aux) ==
    IF Contains(s.intentions, aux) THEN {Failed(s, "Cannot stake if already staked.")}
    ELSE {Done(<<>>, [s EXCEPT !.intentions = Append(s.intentions, aux),
                               !.bondage[aux] = MaxBlockNumber])}

stake(s, aux) ==
    IF s.nominating[aux] # <<>> THEN {Failed(s, "Cannot stake if already nominating.")}
    ELSE IF Contains(s.intentions, aux) THEN {Failed(s, "Cannot stake if already staked.")}
    ELSE {Done(<<>>, [s EXCEPT !.intentions = Append(s.intentions, aux),
                               !.bondage[aux] = MaxBlockNumber])}

unstake(s, aux, position) ==
    IF position >= Len(s.intentions) \/ s.intentions[position + 1] # aux
    THEN {Failed(s, "Invalid index")}
    ELSE {IF b.panic THEN Panicked(s)
          ELSE Done(<<>>, [s EXCEPT !.intentions = swap_remove(s.intentions, position),
                                    !.bondage[aux] = b.v])
          : b \in AddBlockNumber(s.current_era, s.bonding_duration)}

nominate(s, aux, target) ==
    IF lookup(s, target) = <<>> THEN {Failed(s, "invalid account index")}
    ELSE LET t == lookup(s, target)[1] IN
    IF s.nominating[aux] # <<>> THEN {Failed(s, "Cannot nominate if already nominating.")}
    ELSE IF Contains(s.intentions, aux) THEN {Failed(s, "Cannot nominate if already staked.")}
    ELSE {Done(<<>>, [s EXCEPT !.nominators_for[t] = Append(s.nominators_for[t], aux),
                               !.nominating[aux] = <<t>>,
                               !.bondage[aux] = MaxBlockNumber])}

\* An unnominate that leaves the list of the target as it is.
unnominate_keeping_the_list(s, source, target_index) ==
    IF s.nominating[source] = <<>> THEN {Failed(s, "Account must be nominating")}
    ELSE LET target == s.nominating[source][1]
             t == s.nominators_for[target]
         IN  IF target_index >= Len(t) \/ t[target_index + 1] # source
             THEN {Failed(s, "Invalid target index")}
             ELSE {IF b.panic THEN Panicked(s)
                   ELSE Done(<<>>, [s EXCEPT !.nominating[source] = <<>>,
                                             !.bondage[source] = b.v])
                   : b \in AddBlockNumber(s.current_era, s.bonding_duration)}

unnominate(s, source, target_index) ==
    IF s.nominating[source] = <<>> THEN {Failed(s, "Account must be nominating")}
    ELSE LET target == s.nominating[source][1]
             t == s.nominators_for[target]
         IN  IF target_index >= Len(t) \/ t[target_index + 1] # source
             THEN {Failed(s, "Invalid target index")}
             ELSE {IF b.panic THEN Panicked(s)
                   ELSE Done(<<>>, [s EXCEPT !.nominators_for[target] = swap_remove(t, target_index),
                                             !.nominating[source] = <<>>,
                                             !.bondage[source] = b.v])
                   : b \in AddBlockNumber(s.current_era, s.bonding_duration)}

\* ---- sessions and eras
\* A value with whether an unchecked operation overflowed on the way to it:
\* `over` is a panic in a build with overflow checks, v the wrapped value.
Exact(v) == [over |-> FALSE, v |-> v]
Add(a, b) == [over |-> a.over \/ b.over \/ a.v + b.v >= Word, v |-> (a.v + b.v) % Word]
Mul(a, b) == [over |-> a.over \/ b.over \/ a.v * b.v >= Word, v |-> (a.v * b.v) % Word]
Div(a, b) == [over |-> a.over \/ b.over, v |-> a.v \div b.v]

\* voting_balance as such a value.
voting(s, who) == Add(Exact(free_balance(s, who)), Exact(reserved_balance(s, who)))

\* iter().map(Self::voting_balance).fold(acc, |acc, x| acc + x)
RECURSIVE fold_voting(_, _, _)
fold_voting(s, whos, acc) ==
    IF whos = <<>> THEN acc
    ELSE fold_voting(s, Tail(whos), Add(acc, voting(s, Head(whos))))

nomination_balance(s, who) == fold_voting(s, s.nominators_for[who], Exact(0))

\* session::Module: ideal_session_duration, and the parts per 65536 (per
\* PerUnit here) of the reward that a session of the length `actual` earns.
PerUnit == 4
ideal_session_duration == 2
Max(a, b) == IF a > b THEN a ELSE b

\* The storage as a loop leaves it, or a panic in the loop.
Looped(st) == [panic |-> FALSE, st |-> st]
LoopPanicked(st) == [panic |-> TRUE, st |-> st]

\* `let _ = Self::reward(n, safe_mul_rational(Self::voting_balance(n)))`
\* for each n in turn: b * reward / total, the result of reward ignored.
RECURSIVE reward_each(_, _, _, _)
reward_each(s, whos, session_reward, total) ==
    IF whos = <<>> THEN {Looped(s)}
    ELSE LET share == Div(Mul(voting(s, Head(whos)), Exact(session_reward)), Exact(total)) IN
         (IF share.over THEN {LoopPanicked(s)} ELSE {})
         \cup UNION {IF o.res = "panic" THEN {LoopPanicked(s)}
                     ELSE reward_each(o.st, Tail(whos), session_reward, total)
                     : o \in reward(s, Head(whos), share.v)}

\* The reward loop of new_session over the validators.
RECURSIVE reward_validators(_, _, _)
reward_validators(s, validators, session_reward) ==
    IF validators = <<>> THEN {Looped(s)}
    ELSE LET v == Head(validators)
             noms == s.current_nominators_for[v]
             total == fold_voting(s, noms, voting(s, v))
         IN  (IF total.over THEN {LoopPanicked(s)} ELSE {})
             \cup IF total.v = 0 THEN reward_validators(s, Tail(validators), session_reward)
                  ELSE UNION {IF o.panic THEN {o}
                              ELSE reward_validators(o.st, Tail(validators), session_reward)
                              : o \in reward_each(s, noms \o <<v>>, session_reward, total.v)}

\* `let _ = Self::slash(n, safe_mul_rational(Self::voting_balance(n)))`
\* for each n in turn: b * rem / total.
RECURSIVE slash_each(_, _, _, _)
slash_each(s, whos, rem, total) ==
    IF whos = <<>> THEN {Looped(s)}
    ELSE LET share == Div(Mul(voting(s, Head(whos)), Exact(rem)), Exact(total)) IN
         (IF share.over THEN {LoopPanicked(s)} ELSE {})
         \cup UNION {slash_each(o.st, Tail(whos), rem, total)
                     : o \in slash(s, Head(whos), share.v)}

\* The slash loop of new_session over the validators.
RECURSIVE slash_validators(_, _)
slash_validators(s, validators) ==
    IF validators = <<>> THEN {Looped(s)}
    ELSE LET v == Head(validators) IN
         UNION {IF o.ret = <<>> THEN slash_validators(o.st, Tail(validators))
                ELSE LET noms == o.st.current_nominators_for[v]
                         total == fold_voting(o.st, noms, Exact(0))
                     IN  (IF total.over THEN {LoopPanicked(s)} ELSE {})
                         \cup IF total.v = 0 THEN slash_validators(o.st, Tail(validators))
                              ELSE UNION {IF l.panic THEN {l}
                                          ELSE slash_validators(l.st, Tail(validators))
                                          : l \in slash_each(o.st, noms, o.ret[1], total.v)}
                : o \in slash(s, v, s.early_era_slash)}

\* The orders sort_unstable_by(|b1, b2| b2.cmp(b1)) can leave the
\* intentions in: by balance, largest first, equal balances in any order.
sort_unstable_by(s, v) ==
    {o \in {[i \in 1 .. Len(v) |-> v[f[i]]] : f \in Permutations(1 .. Len(v))} :
        \A i \in 1 .. Len(v) - 1 :
            Add(voting(s, o[i]), nomination_balance(s, o[i])).v
                >= Add(voting(s, o[i + 1]), nomination_balance(s, o[i + 1])).v}

\* new_era: the outcomes of the call, in the storage `s`.
new_era(s) ==
    LET era == AddBlockNumber(s.current_era, 1)
        changes == s.next_sessions_per_era # <<>>
                       /\ s.next_sessions_per_era[1] # s.sessions_per_era
        over == \E v \in DOMAIN s.free :
                    Contains(s.intentions, v)
                        /\ Add(voting(s, v), nomination_balance(s, v)).over
    IN  (IF over THEN {Panicked(s)} ELSE {})
        \cup UNION {
             IF e.panic THEN {Panicked(s)}
             ELSE {LET i == Min(s.validator_count, Len(intentions) - 1)
                       vals == SubSeq(intentions, 1, Min(s.validator_count, Len(intentions)))
                   IN  Done(<<>>,
                         [s EXCEPT
                            !.current_era = e.v,
                            !.sessions_per_era =
                                IF changes THEN s.next_sessions_per_era[1] ELSE @,
                            !.last_era_length_change =
                                IF changes THEN s.session_index ELSE @,
                            !.stake_threshold =
                                IF Len(intentions) > 0
                                THEN Add(voting(s, intentions[i + 1]),
                                         nomination_balance(s, intentions[i + 1])).v
                                ELSE 0,
                            !.current_nominators_for =
                                [a \in DOMAIN s.nominators_for |->
                                    IF Contains(vals, a) THEN s.nominators_for[a]
                                    ELSE IF Contains(s.validators, a) THEN <<>>
                                    ELSE @[a]],
                            !.validators = vals])
                   : intentions \in sort_unstable_by(s, s.intentions)}
             : e \in AddBlockNumber(s.current_era, 1)}

\* new_session, a session change in the storage `s`.
new_session(s, normal_rotation, actual_elapsed) ==
    LET session_index == s.session_index
        per65536 == (PerUnit * ideal_session_duration)
                        \div Max(actual_elapsed, ideal_session_duration)
        session_reward == Div(Mul(Exact(s.session_reward), Exact(per65536)), Exact(PerUnit))
        looped == IF normal_rotation
                  THEN (IF session_reward.over THEN {LoopPanicked(s)} ELSE {})
                       \cup reward_validators(s, s.validators, session_reward.v)
                  ELSE slash_validators(s, s.validators)
    IN  UNION {
        IF l.panic THEN {Panicked(s)}
        ELSE LET taken == [l.st EXCEPT !.forcing_new_era = FALSE] IN
             IF l.st.forcing_new_era
             THEN {IF o.res = "Ok" THEN o ELSE Panicked(s) : o \in new_era(taken)}
             ELSE IF s.sessions_per_era = 0 \/ session_index < s.last_era_length_change
             THEN {Panicked(s)}
             ELSE IF (session_index - s.last_era_length_change) % s.sessions_per_era = 0
                         \/ ~normal_rotation
             THEN {IF o.res = "Ok" THEN o ELSE Panicked(s) : o \in new_era(taken)}
             ELSE {Done(<<>>, taken)}
        : l \in looped}

\* session::Module::rotate_session: the index of the session goes up by
\* one, a forced session is no longer asked for, and the staking module is
\* told of the change.
on_session_change(s, normal_rotation, elapsed) ==
    new_session([s EXCEPT !.session_index = @ + 1, !.forcing_new_session = <<>>],
                normal_rotation, elapsed)

set_sessions_per_era(s, new) == {Done(<<>>, [s EXCEPT !.next_sessions_per_era = <<new>>])}

\* force_new_era, with session::Module::force_new_session(!should_slash)
\* keeping what the next rotation is to be.
force_new_era(s, should_slash) ==
    {Done(<<>>, [s EXCEPT !.forcing_new_era = TRUE,
                          !.forcing_new_session = <<~should_slash>>])}

\* `staking` while the module is not called.
NoStaking == [st |-> <<>>, calls |-> 0, last |-> <<>>]

\* ------------------------------------------------------------- the driver
\* WasmExecutor.max_heap_pages (8 in the tests), in scaled pages.
max_heap_pages == 1
\* wasmi's limit on the pages of a linear memory (4 GiB), in scaled pages.
MaxPages == Word \div PageSize

\* The modules handed to call_in_wasm_module: whether the imports resolve,
\* what the export `memory` is, the declared initial and maximum pages.
Modules ==
    [imports_ok : BOOLEAN, mem_export : {"memory", "absent", "not_memory"},
     initial : {1}, maximum : {1, MaxPages}]

\* Contents of the module's data segments (its initial memory).
DataImages == {<<0, 1, 1, 0>>}

\* Externalities snapshots the embedder starts a call with.
Snapshots ==
    { [k \in {} |-> <<>>],
      [k \in {<<0>>, <<0, 1>>, <<1>>} |-> IF k = <<0, 1>> THEN <<>> ELSE <<1, 0>>] }

\* Payloads the embedder passes.
Payloads == {<<>>, <<1, 0>>}

\* `last` when no host call is pending; pre is the state the call started in.
NoPre == [mem |-> <<>>, end |-> 0, ext |-> [k \in {} |-> <<>>], sb |-> <<>>,
          si |-> <<>>]
NoCall == [call |-> "none", args |-> <<>>, res |-> "ok", ret |-> <<>>, msg |-> "",
           nested |-> <<>>, pre |-> NoPre]
NoResult == [kind |-> "none", err |-> "", bytes |-> <<>>]
Return(bytes) == [kind |-> "Ok", err |-> "", bytes |-> bytes]
Error(e) == [kind |-> "Err", err |-> e, bytes |-> <<>>]
HostPanic == [kind |-> "panic", err |-> "", bytes |-> <<>>]
\* `returned` while the guest has neither trapped nor returned.
NotReturned == <<"running">>

Init ==
    /\ pc = "instantiate"
    /\ module \in Modules
    /\ data \in Payloads
    /\ mem \in DataImages
    /\ heap_end = 0
    /\ ext0 \in Snapshots
    /\ ext = ext0
    /\ hash_lookup = [h \in {} |-> <<>>]
    /\ sandbox_store = <<>>
    /\ sandbox_instances = <<>>
    /\ last = NoCall
    /\ muts = <<>>
    /\ allocs = <<>>
    /\ copies = <<>>
    /\ entry = <<>>
    /\ result = NoResult
    /\ returned = NotReturned
    /\ steps = 0
    /\ adder = NoExecute
    /\ staking = NoStaking
    /\ contract = NoHostFunction

\* ModuleInstance::new with the `env` resolver.
Instantiate ==
    /\ pc = "instantiate"
    /\ IF module.imports_ok
       THEN pc' = "export_memory" /\ result' = result
       ELSE pc' = "done" /\ result' = Error("Wasmi")
    /\ UNCHANGED <<module, data, mem, heap_end, ext, ext0, hash_lookup,
                   sandbox_store, last, muts, allocs, copies, entry, returned, steps,
                   sandbox_instances, adder, staking, contract>>

\* export_by_name("memory").expect(..).as_memory().expect(..)
ExportMemory ==
    /\ pc = "export_memory"
    /\ IF module.mem_export = "memory"
       THEN pc' = "new" /\ result' = result
       ELSE pc' = "done" /\ result' = HostPanic
    /\ UNCHANGED <<module, data, mem, heap_end, ext, ext0, hash_lookup,
                   sandbox_store, last, muts, allocs, copies, entry, returned, steps,
                   sandbox_instances, adder, staking, contract>>

\* A heap whose cursor starts after the pages it has grown by.
Heap_new_after_grow(initial, maximum, pages) ==
    IF initial + pages > maximum THEN <<>>
    ELSE <<((initial + pages) * PageSize) % Word>>

\* Heap::new: <<>> when memory.grow refuses, else <<end>>.
Heap_new(initial, maximum, pages) ==
    IF initial + pages > maximum THEN <<>>
    ELSE <<(initial * PageSize) % Word>>

\* FunctionExecutor::new, which builds the heap and grows the memory.
FunctionExecutor_new ==
    /\ pc = "new"
    /\ LET h == Heap_new(module.initial, module.maximum, max_heap_pages) IN
       IF h = <<>>
       THEN /\ pc' = "done"
            /\ result' = Error("Runtime")
            /\ UNCHANGED <<mem, heap_end>>
       ELSE /\ pc' = "run_start"
            /\ result' = result
            /\ mem' = mem \o [i \in 1 .. max_heap_pages * PageSize |-> 0]
            /\ heap_end' = h[1]
    /\ UNCHANGED <<module, data, ext, ext0, hash_lookup, sandbox_store, last,
                   muts, allocs, copies, entry, returned, steps,
                   sandbox_instances, adder, staking, contract>>

\* The guest is running: in the start function or in the invoked export.
GuestRunning == pc \in {"run_start", "invoke"}

\* The guest may take a step: it is running, it has taken the result of its
\* last host call, and the bound on its steps is not reached.
CanStep(bound) == GuestRunning /\ last = NoCall /\ steps < bound

CanCall == CanStep(MaxSteps)

\* The storage mutation a host call asks for, read from the guest's
\* arguments and its memory as they are when the call is made.
Mutation(name, args) ==
    IF name = "ext_set_storage"
    THEN <<[op |-> "set", key |-> MemGet(mem, args[1], args[2]),
            value |-> MemGet(mem, args[3], args[4])]>>
    ELSE IF name = "ext_clear_storage"
    THEN <<[op |-> "clear", key |-> MemGet(mem, args[1], args[2]), value |-> <<>>]>>
    ELSE IF name = "ext_clear_prefix"
    THEN <<[op |-> "clear_prefix", key |-> MemGet(mem, args[1], args[2]), value |-> <<>>]>>
    ELSE <<>>

\* One host call made by the guest, ending in one of the outcomes `outs`.
\* A user error traps the guest, which ends the invocation with an error;
\* a host panic unwinds through call_in_wasm_module.
HostCall(name, args, outs) ==
    /\ \E o \in outs :
        /\ mem' = o.mem
        /\ heap_end' = o.end
        /\ ext' = o.ext
        /\ hash_lookup' = o.hl
        /\ sandbox_store' = o.sb
        /\ sandbox_instances' = o.si
        /\ last' = [call |-> name, args |-> args, res |-> o.res, ret |-> o.ret,
                    msg |-> o.msg, nested |-> o.nested,
                    pre |-> [mem |-> mem, end |-> heap_end, ext |-> ext,
                             sb |-> sandbox_store, si |-> sandbox_instances]]
        /\ allocs' = IF o.res = "ok" /\ name = "ext_malloc"
                     THEN Append(allocs, [size |-> args[1], ptr |-> o.ret[1], phase |-> pc])
                     ELSE allocs
        /\ pc' = IF o.res = "ok" THEN pc ELSE "done"
        /\ result' = IF o.res = "ok" THEN result
                     ELSE IF o.res = "trap" THEN Error("Wasmi") ELSE HostPanic
        /\ muts' = IF o.res = "ok" THEN muts \o Mutation(name, args) ELSE muts
        /\ returned' = IF o.res = "trap" THEN <<"trap">> ELSE returned
        /\ copies' = IF name = "ext_sandbox_memory_set" /\ o.res = "ok"
                         /\ o.ret = <<ERR_OK>>
                      THEN Append(copies, [idx |-> args[1], off |-> args[2],
                                           val |-> args[3], len |-> args[4],
                                           mem |-> mem, step |-> steps + 1])
                      ELSE copies
    /\ steps' = steps + 1
    /\ UNCHANGED <<module, data, ext0, entry,
                   adder, staking, contract>>


\* Argument values the guest passes.
ValArgs == Byte \cup {ByteBase + 1}
PageArgs == {1, 3}
MaxArgs == {0, 1, MEM_UNLIMITED}
IdxArgs == {0, 1}

Call_ext_print_utf8 ==
    /\ CanCall
    /\ \E p \in PtrArgs, n \in LenArgs :
        HostCall("ext_print_utf8", <<p, n>>, ext_print_utf8(p, n))

Call_ext_print_hex ==
    /\ CanCall
    /\ \E p \in PtrArgs, n \in LenArgs :
        HostCall("ext_print_hex", <<p, n>>, ext_print_hex(p, n))

Call_ext_print_num ==
    /\ CanCall
    /\ \E n \in ValArgs : HostCall("ext_print_num", <<n>>, ext_print_num(n))

Call_ext_memcmp ==
    /\ CanCall
    /\ \E s1 \in PtrArgs, s2 \in PtrArgs, n \in LenArgs :
        HostCall("ext_memcmp", <<s1, s2, n>>, ext_memcmp(s1, s2, n))

Call_ext_memcpy ==
    /\ CanCall
    /\ \E d \in PtrArgs, s \in PtrArgs, n \in LenArgs :
        HostCall("ext_memcpy", <<d, s, n>>, ext_memcpy(d, s, n))

Call_ext_memmove ==
    /\ CanCall
    /\ \E d \in PtrArgs, s \in PtrArgs, n \in LenArgs :
        HostCall("ext_memmove", <<d, s, n>>, ext_memmove(d, s, n))

Call_ext_memset ==
    /\ CanCall
    /\ \E d \in PtrArgs, v \in ValArgs, n \in LenArgs :
        HostCall("ext_memset", <<d, v, n>>, ext_memset(d, v, n))

Malloc(bound) ==
    /\ CanStep(bound)
    /\ \E n \in LenArgs : HostCall("ext_malloc", <<n>>, ext_malloc(n))

Free(bound) ==
    /\ CanStep(bound)
    /\ \E p \in PtrArgs : HostCall("ext_free", <<p>>, ext_free(p))

Call_ext_malloc == Malloc(MaxSteps)

Call_ext_free == Free(MaxSteps)

\* The same two calls of a guest that makes no other.
HeapOnly_malloc == Malloc(MaxHeapSteps)

HeapOnly_free == Free(MaxHeapSteps)

Call_ext_set_storage ==
    /\ CanCall
    /\ \E k \in PtrArgs, kl \in LenArgs, v \in PtrArgs, vl \in LenArgs :
        HostCall("ext_set_storage", <<k, kl, v, vl>>, ext_set_storage(k, kl, v, vl))

Call_ext_clear_storage ==
    /\ CanCall
    /\ \E k \in PtrArgs, kl \in LenArgs :
        HostCall("ext_clear_storage", <<k, kl>>, ext_clear_storage(k, kl))

Call_ext_exists_storage ==
    /\ CanCall
    /\ \E k \in PtrArgs, kl \in LenArgs :
        HostCall("ext_exists_storage", <<k, kl>>, ext_exists_storage(k, kl))

Call_ext_clear_prefix ==
    /\ CanCall
    /\ \E k \in PtrArgs, kl \in LenArgs :
        HostCall("ext_clear_prefix", <<k, kl>>, ext_clear_prefix(k, kl))

Call_ext_get_allocated_storage ==
    /\ CanCall
    /\ \E k \in PtrArgs, kl \in LenArgs, w \in PtrArgs :
        HostCall("ext_get_allocated_storage", <<k, kl, w>>,
                 ext_get_allocated_storage(k, kl, w))

Call_ext_get_storage_into ==
    /\ CanCall
    /\ \E k \in PtrArgs, kl \in LenArgs, v \in PtrArgs, vl \in LenArgs, o \in LenArgs :
        HostCall("ext_get_storage_into", <<k, kl, v, vl, o>>,
                 ext_get_storage_into(k, kl, v, vl, o))

Call_ext_storage_root ==
    /\ CanCall
    /\ \E r \in PtrArgs : HostCall("ext_storage_root", <<r>>, ext_storage_root(r))

Call_ext_enumerated_trie_root ==
    /\ CanCall
    /\ \E v \in PtrArgs, l \in PtrArgs, n \in LenArgs, r \in PtrArgs :
        HostCall("ext_enumerated_trie_root", <<v, l, n, r>>,
                 ext_enumerated_trie_root(v, l, n, r))

Call_ext_chain_id ==
    /\ CanCall
    /\ HostCall("ext_chain_id", <<>>, ext_chain_id)

Call_ext_twox_128 ==
    /\ CanCall
    /\ \E d \in PtrArgs, n \in LenArgs, o \in PtrArgs :
        HostCall("ext_twox_128", <<d, n, o>>, ext_twox_128(d, n, o))

Call_ext_twox_256 ==
    /\ CanCall
    /\ \E d \in PtrArgs, n \in LenArgs, o \in PtrArgs :
        HostCall("ext_twox_256", <<d, n, o>>, ext_twox_256(d, n, o))

Call_ext_blake2_256 ==
    /\ CanCall
    /\ \E d \in PtrArgs, n \in LenArgs, o \in PtrArgs :
        HostCall("ext_blake2_256", <<d, n, o>>, ext_blake2_256(d, n, o))

Call_ext_ed25519_verify ==
    /\ CanCall
    /\ \E m \in PtrArgs, n \in LenArgs, s \in PtrArgs, k \in PtrArgs :
        HostCall("ext_ed25519_verify", <<m, n, s, k>>, ext_ed25519_verify(m, n, s, k))

SandboxMemoryNew(bound) ==
    /\ CanStep(bound)
    /\ \E i \in PageArgs, m \in MaxArgs :
        HostCall("ext_sandbox_memory_new", <<i, m>>, ext_sandbox_memory_new(i, m))

SandboxMemoryGet(bound) ==
    /\ CanStep(bound)
    /\ \E x \in IdxArgs, o \in PtrArgs, b \in PtrArgs, n \in LenArgs :
        HostCall("ext_sandbox_memory_get", <<x, o, b, n>>,
                 ext_sandbox_memory_get(x, o, b, n))

SandboxMemorySet(bound) ==
    /\ CanStep(bound)
    /\ \E x \in IdxArgs, o \in PtrArgs, v \in PtrArgs, n \in LenArgs :
        HostCall("ext_sandbox_memory_set", <<x, o, v, n>>,
                 ext_sandbox_memory_set(x, o, v, n))

SandboxMemoryTeardown(bound) ==
    /\ CanStep(bound)
    /\ \E x \in IdxArgs :
        HostCall("ext_sandbox_memory_teardown", <<x>>, ext_sandbox_memory_teardown(x))

Call_ext_sandbox_memory_new == SandboxMemoryNew(MaxSteps)

Call_ext_sandbox_memory_get == SandboxMemoryGet(MaxSteps)

Call_ext_sandbox_memory_set == SandboxMemorySet(MaxSteps)

Call_ext_sandbox_memory_teardown == SandboxMemoryTeardown(MaxSteps)

\* The same four calls of a guest that makes no other.
SandboxOnly_memory_new == SandboxMemoryNew(MaxSandboxSteps)

SandboxOnly_memory_get == SandboxMemoryGet(MaxSandboxSteps)

SandboxOnly_memory_set == SandboxMemorySet(MaxSandboxSteps)

SandboxOnly_memory_teardown == SandboxMemoryTeardown(MaxSandboxSteps)

\* The calls on nested instances.  A module, a blob or a name lies at the
\* start of the static data, one byte further or outside memory, and is 1
\* or MaxLen bytes long; the room for a returned value is none, the length
\* of an encoded value, or the largest u32.
SandboxInstantiate(bound) ==
    /\ CanStep(bound)
    /\ \E t \in {0, TableLen}, w \in {0, 1, U32Max}, wl \in {1, MaxLen},
          i \in {0, 1, U32Max}, il \in {1, MaxLen} :
        HostCall("ext_sandbox_instantiate", <<t, w, wl, i, il, 0>>,
                 ext_sandbox_instantiate(t, w, wl, i, il, 0))

SandboxInstanceTeardown(bound) ==
    /\ CanStep(bound)
    /\ \E x \in IdxArgs :
        HostCall("ext_sandbox_instance_teardown", <<x>>,
                 ext_sandbox_instance_teardown(x))

SandboxInvoke(bound) ==
    /\ CanStep(bound)
    /\ \E x \in IdxArgs, e \in {0, 1, U32Max}, el \in {1, MaxLen} :
        HostCall("ext_sandbox_invoke", <<x, e, el, 0>>, ext_sandbox_invoke(x, e, el, 0))

SandboxInvokePoc2(bound) ==
    /\ CanStep(bound)
    /\ \E x \in IdxArgs, e \in {0, U32Max}, el \in {1, MaxLen},
          a \in {0, 1}, al \in {1, MaxLen}, r \in {PageSize, U32Max},
          rl \in {0, Len(EncodeReturn(0))} :
        HostCall("ext_sandbox_invoke_poc2", <<x, e, el, a, al, r, rl, 0>>,
                 ext_sandbox_invoke_poc2(x, e, el, a, al, r, rl, 0))

\* A store instruction of the guest into its own linear memory.
GuestStore ==
    /\ CanCall
    /\ \E a \in PtrArgs, b \in Byte :
        /\ InRange(mem, a, 1)
        /\ mem' = MemSet(mem, a, <<b>>)
    /\ steps' = steps + 1
    /\ UNCHANGED <<pc, module, data, heap_end, ext, ext0, hash_lookup,
                   sandbox_store, last, muts, allocs, copies, entry, result, returned,
                   sandbox_instances, adder, staking, contract>>

\* The host call has returned and the guest goes on with its result.
Resume ==
    /\ GuestRunning
    /\ last # NoCall
    /\ last' = NoCall
    /\ UNCHANGED <<pc, module, data, mem, heap_end, ext, ext0, hash_lookup,
                   sandbox_store, muts, allocs, copies, entry, result, returned, steps,
                   sandbox_instances, adder, staking, contract>>

\* A trap that is swallowed: the call returns no bytes, as a success.
GuestTrap_swallowed ==
    /\ GuestRunning
    /\ last = NoCall
    /\ pc' = "done"
    /\ result' = Return(<<>>)
    /\ returned' = <<"trap">>
    /\ UNCHANGED <<module, data, mem, heap_end, ext, ext0, hash_lookup,
                   sandbox_store, last, muts, allocs, copies, entry, steps,
                   sandbox_instances, adder, staking, contract>>

\* The guest executes a trapping instruction (unreachable, a panic).
GuestTrap ==
    /\ GuestRunning
    /\ last = NoCall
    /\ pc' = "done"
    /\ result' = Error("Wasmi")
    /\ returned' = <<"trap">>
    /\ UNCHANGED <<module, data, mem, heap_end, ext, ext0, hash_lookup,
                   sandbox_store, last, muts, allocs, copies, entry, steps,
                   sandbox_instances, adder, staking, contract>>

\* A payload copied to the cursor without being allocated.
PlacePayload_unallocated ==
    /\ pc = "run_start"
    /\ last = NoCall
    /\ IF ~InRange(mem, heap_end, Len(data))
       THEN /\ pc' = "done"
            /\ result' = Error("Wasmi")
            /\ UNCHANGED <<mem, entry>>
       ELSE /\ pc' = "invoke"
            /\ result' = result
            /\ mem' = MemSet(mem, heap_end, data)
            /\ entry' = <<heap_end, Len(data)>>
    /\ UNCHANGED <<module, data, heap_end, ext, ext0, hash_lookup, sandbox_store,
                   last, muts, allocs, copies, returned, steps,
                   sandbox_instances, adder, staking, contract>>

\* run_start returned; the payload is allocated and copied, and the export
\* is invoked with (offset, size).
PlacePayload ==
    /\ pc = "run_start"
    /\ last = NoCall
    /\ \E a \in allocate(heap_end, Len(data)) :
        IF a.panic
        THEN /\ pc' = "done"
             /\ result' = HostPanic
             /\ UNCHANGED <<mem, heap_end, entry>>
        ELSE IF ~InRange(mem, a.r, Len(data))
        THEN /\ pc' = "done"
             /\ result' = Error("Wasmi")
             /\ heap_end' = a.end
             /\ UNCHANGED <<mem, entry>>
        ELSE /\ pc' = "invoke"
             /\ result' = result
             /\ heap_end' = a.end
             /\ mem' = MemSet(mem, a.r, data)
             /\ entry' = <<a.r, Len(data)>>
    /\ UNCHANGED <<module, data, ext, ext0, hash_lookup, sandbox_store, last,
                   muts, allocs, copies, returned, steps,
                   sandbox_instances, adder, staking, contract>>

\* What the invoked export returns: nothing, an i64 (low word, high word)
\* or a value of another type.
Returned ==
    {<<"none">>} \cup {<<"i32", v>> : v \in {0}}
    \cup {<<"i64", lo, hi>> : lo \in PtrArgs, hi \in LenArgs}

\* A decoding that takes the length from the low word and the offset from
\* the high word.
DecodeReturn_swapped(r) ==
    IF r[1] = "i64"
    THEN IF InRange(mem, r[3], r[2]) THEN Return(MemGet(mem, r[3], r[2]))
         ELSE Error("Runtime")
    ELSE Error("InvalidReturn")

\* `if let Some(I64(r)) = returned`: offset = r as u32, length = r >> 32,
\* memory.get(offset, length) or a Runtime error; else InvalidReturn.
DecodeReturn(r) ==
    IF r[1] = "i64"
    THEN IF InRange(mem, r[2], r[3]) THEN Return(MemGet(mem, r[2], r[3]))
         ELSE Error("Runtime")
    ELSE Error("InvalidReturn")

\* The export returns and its result is decoded.
ExportReturns ==
    /\ pc = "invoke"
    /\ last = NoCall
    /\ pc' = "done"
    /\ \E r \in Returned :
        /\ returned' = r
        /\ result' = DecodeReturn(r)
    /\ UNCHANGED <<module, data, mem, heap_end, ext, ext0, hash_lookup,
                   sandbox_store, last, muts, allocs, copies, entry, steps,
                   sandbox_instances, adder, staking, contract>>

Next ==
    \/ Instantiate
    \/ ExportMemory
    \/ FunctionExecutor_new
    \/ PlacePayload
    \/ ExportReturns
    \/ GuestStore
    \/ GuestTrap
    \/ Resume
    \/ Call_ext_print_utf8
    \/ Call_ext_print_hex
    \/ Call_ext_print_num
    \/ Call_ext_memcmp
    \/ Call_ext_memcpy
    \/ Call_ext_memmove
    \/ Call_ext_memset
    \/ Call_ext_malloc
    \/ Call_ext_free
    \/ Call_ext_set_storage
    \/ Call_ext_clear_storage
    \/ Call_ext_exists_storage
    \/ Call_ext_clear_prefix
    \/ Call_ext_get_allocated_storage
    \/ Call_ext_get_storage_into
    \/ Call_ext_storage_root
    \/ Call_ext_enumerated_trie_root
    \/ Call_ext_chain_id
    \/ Call_ext_twox_128
    \/ Call_ext_twox_256
    \/ Call_ext_blake2_256
    \/ Call_ext_ed25519_verify
    \/ Call_ext_sandbox_memory_new
    \/ Call_ext_sandbox_memory_get
    \/ Call_ext_sandbox_memory_set
    \/ Call_ext_sandbox_memory_teardown
    \/ SandboxInstantiate(MaxSteps)
    \/ SandboxInstanceTeardown(MaxSteps)
    \/ SandboxInvoke(MaxSteps)
    \/ SandboxInvokePoc2(MaxSteps)

Spec == Init /\ [][Next]_vars

\* ------------------------------------------- the other programs' drivers
\* The executor's variables, and their values when no call is under way.
executor == <<pc, module, data, mem, heap_end, ext, ext0, hash_lookup,
              sandbox_store, sandbox_instances, last, muts, allocs, copies,
              entry, result, returned, steps>>

NoInvocation ==
    /\ pc = "done"
    /\ module = [initial |-> 0, maximum |-> 0, imports_ok |-> FALSE,
                 mem_export |-> "none"]
    /\ data = <<>>
    /\ mem = <<>>
    /\ heap_end = 0
    /\ ext0 = [k \in {} |-> <<>>]
    /\ ext = ext0
    /\ hash_lookup = [h \in {} |-> <<>>]
    /\ sandbox_store = <<>>
    /\ sandbox_instances = <<>>
    /\ last = NoCall
    /\ muts = <<>>
    /\ allocs = <<>>
    /\ copies = <<>>
    /\ entry = <<>>
    /\ result = NoResult
    /\ returned = NotReturned
    /\ steps = 0

\* Calls of execute explored in a row.
MaxExecutes == 2

\* The chain that starts at a head: the head's number, the state it commits
\* to, the executes that yielded a head since, the previous head, and whether
\* every one of them was given the hash of the head held and the state so far.
ChainFrom(head, s0) == [n0 |-> head.number, state |-> s0, k |-> 0, prev |-> <<>>, follows |-> TRUE]

\* The chain after a call of execute that ended with `o`.
ChainAfter(chain, parent_hash, parent_head, block_data, o) ==
    IF o.kind # "Ok" THEN chain
    ELSE [n0 |-> chain.n0,
          state |-> (block_data.state + block_data.add) % U64,
          k |-> chain.k + 1,
          prev |-> <<parent_head>>,
          follows |-> /\ chain.follows
                      /\ parent_hash = HeadData_hash(parent_head)
                      /\ block_data.state = chain.state]

\* The adder's collator holds a head, of any number, parent and state; the
\* chain is followed from a head whose post_state is the hash of a state.
InitAdder ==
    /\ NoInvocation
    /\ staking = NoStaking
    /\ contract = NoHostFunction
    /\ \E n \in {0, 1, U64 - 1}, p \in [1 .. Hash256Len -> Byte],
          s \in [1 .. Hash256Len -> Byte], s0 \in {0, 1, U64 - 1} :
        LET head == [number |-> n, parent_hash |-> p, post_state |-> s] IN
        adder = [NoExecute EXCEPT
                    !.head = <<head>>,
                    !.chain = IF s = hash_state(s0) THEN <<ChainFrom(head, s0)>> ELSE <<>>]

\* One call of execute on the head held, with any parent hash and block;
\* the head it yields becomes the head held.
Execute ==
    /\ adder.head # <<>>
    /\ adder.calls < MaxExecutes
    /\ \E parent_hash \in [1 .. Hash256Len -> Byte], s \in {0, 1, U64 - 1},
          a \in {0, 1, U64 - 1} :
        LET block_data == [state |-> s, add |-> a] IN
        \E o \in execute(parent_hash, adder.head[1], block_data) :
            adder' = [head |-> IF o.kind = "Ok" THEN o.head ELSE adder.head,
                      calls |-> adder.calls + 1,
                      last |-> <<[parent_hash |-> parent_hash,
                                  parent_head |-> adder.head[1],
                                  block_data |-> block_data, out |-> o]>>,
                      chain |-> IF adder.chain = <<>> THEN <<>>
                                ELSE <<ChainAfter(adder.chain[1], parent_hash,
                                                  adder.head[1], block_data, o)>>]
    /\ UNCHANGED <<executor, staking, contract>>

SpecAdder == InitAdder /\ [][Execute]_vars

\* Calls of host functions explored in a row.
MaxHostCalls == 2

\* The typed values a caller passes.
TypedValues == {I32(0 - Word \div 2), I32(0 - 1), I32(0), I32(1), I32(3), I64(1)}
ArgLists == {<<>>} \cup {<<a>> : a \in TypedValues} \cup {<<a, b>> : a, b \in TypedValues} \cup {<<I32(3), I32(1), a>> : a \in TypedValues}

\* A context: the u32 the test functions are given.
InitContract ==
    /\ NoInvocation
    /\ adder = NoExecute
    /\ staking = NoStaking
    /\ \E c \in {0, 1, U32Max} : contract = [NoHostFunction EXCEPT !.ctx = <<c>>]

\* One call of a host function with a slice of typed values.  A panic
\* unwinds through the caller, which keeps the context as the body left it.
CallHostFunction ==
    /\ contract.ctx # <<>>
    /\ contract.calls < MaxHostCalls
    /\ \E func \in HostFunctions, args \in ArgLists :
        \E o \in unmarshall_then_body_then_marshall(func, contract.ctx[1], args) :
            contract' = [ctx |-> <<o.ctx>>,
                         calls |-> contract.calls + 1,
                         last |-> <<[func |-> func, args |-> args,
                                     pre |-> contract.ctx[1], out |-> o]>>]
    /\ UNCHANGED <<executor, adder, staking>>

SpecContract == InitContract /\ [][CallHostFunction]_vars

\* Calls of the staking module explored in a row.
MaxStakingCalls == 2

Accounts == {1, 2}

\* The storage at the start: account 1 with any of a few free and reserved
\* balances and any lock, account 2 with the least balance, or dead, or
\* never seen; the accounts seen are in the first enum set.
Genesis ==
    {[free |-> (1 :> f1 @@ 2 :> f2), reserved |-> (1 :> r1 @@ 2 :> <<>>),
      bondage |-> (1 :> b1 @@ 2 :> 0),
      enum_sets |-> (0 :> IF seen2 THEN <<1, 2>> ELSE <<1>>),
      next_enum_set |-> IF seen2 THEN 1 ELSE 0]
     : f1 \in {<<>>, <<ExistentialDeposit>>, <<5>>, <<U32Max>>},
       r1 \in {<<>>, <<ExistentialDeposit>>, <<U32Max - 1>>},
       f2 \in {<<>>, <<ExistentialDeposit>>},
       b1 \in {0, block_number + 1, MaxBlockNumber},
       seen2 \in BOOLEAN}

InitStaking ==
    /\ NoInvocation
    /\ adder = NoExecute
    /\ contract = NoHostFunction
    /\ \E g \in Genesis :
        /\ g.free[1] = <<>> => g.bondage[1] = 0
        /\ g.free[2] # <<>> => g.next_enum_set = 1
        /\ staking = [NoStaking EXCEPT !.st = <<g>>]

\* One call of the module, the calls so far fewer than `bound`, ending in
\* one of the outcomes `outs`.
ModuleCall(bound, op, args, outs) ==
    /\ staking.st # <<>>
    /\ staking.calls < bound
    /\ \E o \in outs :
        staking' = [st |-> <<o.st>>, calls |-> staking.calls + 1,
                    last |-> <<[op |-> op, args |-> args, res |-> o.res,
                                ret |-> o.ret, pre |-> staking.st[1]]>>]
    /\ UNCHANGED <<executor, adder, contract>>

StakingCall(op, args, outs) == ModuleCall(MaxStakingCalls, op, args, outs)

\* The amounts and the destinations the calls are made with.
Amounts == {0, 1, ExistentialDeposit, 3, U32Max}
Addresses == {<<"Id", a>> : a \in Accounts} \cup {<<"Index", i>> : i \in {1, 3}}

NextStaking ==
    \E who \in Accounts, value \in Amounts :
       LET s == staking.st[1] IN
       \/ \E dest \in Addresses :
             StakingCall("transfer", <<who, dest, value>>, transfer(s, who, dest, value))
       \/ StakingCall("reserve", <<who, value>>, reserve(s, who, value))
       \/ StakingCall("unreserve", <<who, value>>, unreserve(s, who, value))
       \/ StakingCall("slash", <<who, value>>, slash(s, who, value))
       \/ StakingCall("slash_reserved", <<who, value>>, slash_reserved(s, who, value))
       \/ StakingCall("reward", <<who, value>>, reward(s, who, value))
       \/ \E beneficiary \in Accounts :
             StakingCall("transfer_reserved", <<who, beneficiary, value>>,
                         transfer_reserved(s, who, beneficiary, value))
       \/ \E encoded_len \in 0 .. MaxLen :
             StakingCall("make_payment", <<who, encoded_len>>,
                         make_payment(s, who, encoded_len))
       \/ StakingCall("set_free_balance", <<who, value>>,
                      {Done(<<>>, set_free_balance(s, who, value))})
       \/ StakingCall("set_reserved_balance", <<who, value>>,
                      {Done(<<>>, set_reserved_balance(s, who, value))})
       \/ StakingCall("set_free_balance_creating", <<who, value>>,
                      set_free_balance_creating(s, who, value))
       \/ StakingCall("can_reserve", <<who, value>>,
                      {Done(<<can_reserve(s, who, value)>>, s)})

SpecStaking == InitStaking /\ [][NextStaking]_vars

\* Calls of the module explored in a row while accounts stake and nominate.
MaxNominationCalls == 4

\* The storage at the start of staking: nobody stakes or nominates yet.
StakingGenesis ==
    {[free |-> (1 :> <<5>> @@ 2 :> f2), reserved |-> (1 :> <<>> @@ 2 :> <<>>),
      bondage |-> (1 :> 0 @@ 2 :> 0),
      enum_sets |-> (0 :> IF f2 = <<>> THEN <<1>> ELSE <<1, 2>>),
      next_enum_set |-> IF f2 = <<>> THEN 0 ELSE 1,
      intentions |-> <<>>,
      nominating |-> (1 :> <<>> @@ 2 :> <<>>),
      nominators_for |-> (1 :> <<>> @@ 2 :> <<>>),
      current_era |-> era, bonding_duration |-> bd]
     : f2 \in {<<>>, <<3>>}, era \in {0, 1}, bd \in {0, MaxBlockNumber}}

InitNominations ==
    /\ NoInvocation
    /\ adder = NoExecute
    /\ contract = NoHostFunction
    /\ \E g \in StakingGenesis : staking = [NoStaking EXCEPT !.st = <<g>>]

NominationCall(op, args, outs) == ModuleCall(MaxNominationCalls, op, args, outs)

NextNominations ==
    \E who \in Accounts :
       LET s == staking.st[1] IN
       \/ NominationCall("stake", <<who>>, stake(s, who))
       \/ \E position \in 0 .. 2 :
             NominationCall("unstake", <<who, position>>, unstake(s, who, position))
       \/ \E target \in Addresses :
             NominationCall("nominate", <<who, target>>, nominate(s, who, target))
       \/ \E target_index \in 0 .. 2 :
             NominationCall("unnominate", <<who, target_index>>,
                            unnominate(s, who, target_index))
       \/ \E value \in {ExistentialDeposit, 5} :
             NominationCall("slash", <<who, value>>, slash(s, who, value))
       \/ NominationCall("reward", <<who, 1>>, reward(s, who, 1))
       \/ \E dest \in Accounts :
             NominationCall("transfer", <<who, <<"Id", dest>>, ExistentialDeposit>>,
                            transfer(s, who, <<"Id", dest>>, ExistentialDeposit))
       \/ NominationCall("reserve", <<who, ExistentialDeposit>>,
                         reserve(s, who, ExistentialDeposit))

SpecNominations == InitNominations /\ [][NextNominations]_vars

\* Calls of the module explored in a row while sessions change.
MaxEraCalls == 4

\* The storage at the start of an era: account 1 validates, nobody
\* nominates, and the era, the session index and the flags are as the
\* genesis block leaves them.
EraGenesis ==
    {[free |-> (1 :> <<5>> @@ 2 :> f2), reserved |-> (1 :> <<>> @@ 2 :> <<>>),
      bondage |-> (1 :> MaxBlockNumber @@ 2 :> 0),
      enum_sets |-> (0 :> <<1, 2>>), next_enum_set |-> 1,
      intentions |-> <<1>>,
      nominating |-> (1 :> <<>> @@ 2 :> <<>>),
      nominators_for |-> (1 :> <<>> @@ 2 :> <<>>),
      current_nominators_for |-> (1 :> <<>> @@ 2 :> <<>>),
      current_era |-> 0, bonding_duration |-> 0,
      sessions_per_era |-> spe, next_sessions_per_era |-> <<>>,
      last_era_length_change |-> 0, forcing_new_era |-> FALSE,
      validator_count |-> vc, session_reward |-> 3, early_era_slash |-> slash_,
      stake_threshold |-> 0,
      session_index |-> 0, validators |-> <<1>>, forcing_new_session |-> <<>>]
     : f2 \in {<<3>>, <<U32Max - 1>>}, spe \in {1, 2}, vc \in {1, 2},
       slash_ \in {ExistentialDeposit, U32Max}}

InitEras ==
    /\ NoInvocation
    /\ adder = NoExecute
    /\ contract = NoHostFunction
    /\ \E g \in EraGenesis : staking = [NoStaking EXCEPT !.st = <<g>>]

EraCall(op, args, outs) == ModuleCall(MaxEraCalls, op, args, outs)

\* The session module rotates the session, normally or not, as forced if a
\* session was forced; the session index stays within T::BlockNumber.
SessionChange ==
    /\ staking.st # <<>>
    /\ staking.st[1].session_index < MaxBlockNumber
    /\ LET s == staking.st[1] IN
       \E normal_rotation \in IF s.forcing_new_session = <<>> THEN BOOLEAN
                              ELSE {s.forcing_new_session[1]},
          elapsed \in {1, 2 * ideal_session_duration} :
             EraCall("on_session_change", <<normal_rotation, elapsed>>,
                     on_session_change(s, normal_rotation, elapsed))

NextEras ==
    \/ SessionChange
    \/ \E new \in 0 .. 2 :
          EraCall("set_sessions_per_era", <<new>>, set_sessions_per_era(staking.st[1], new))
    \/ \E should_slash \in BOOLEAN :
          EraCall("force_new_era", <<should_slash>>, force_new_era(staking.st[1], should_slash))
    \/ EraCall("stake", <<2>>, stake(staking.st[1], 2))
    \/ EraCall("nominate", <<2, <<"Id", 1>>>>, nominate(staking.st[1], 2, <<"Id", 1>>))

SpecEras == InitEras /\ [][NextEras]_vars


\* ================================================================= claims
\* The last step was the host call `name`, whose outcome `last` records.
Called(name) == last.call = name
Arg(i) == last.args[i]
\* A (ptr, len) range of the call's arguments lies outside guest memory.
Outside(ptr, len) == ~InRange(last.pre.mem, ptr, len)

\* The (ptr, len) ranges each host call is handed by its signature.
Handed ==
    CASE Called("ext_print_utf8") \/ Called("ext_print_hex")
         \/ Called("ext_clear_storage") \/ Called("ext_exists_storage")
         \/ Called("ext_clear_prefix")
            -> {<<Arg(1), Arg(2)>>}
      [] Called("ext_memcmp") \/ Called("ext_memcpy") \/ Called("ext_memmove")
            -> {<<Arg(1), Arg(3)>>, <<Arg(2), Arg(3)>>}
      [] Called("ext_memset") -> {<<Arg(1), Arg(3)>>}
      [] Called("ext_set_storage") \/ Called("ext_get_storage_into")
            -> {<<Arg(1), Arg(2)>>, <<Arg(3), Arg(4)>>}
      [] Called("ext_get_allocated_storage") -> {<<Arg(1), Arg(2)>>, <<Arg(3), 4>>}
      [] Called("ext_storage_root") -> {<<Arg(1), Hash256Len>>}
      [] Called("ext_enumerated_trie_root")
            -> {<<Arg(2), 4 * Arg(3)>>, <<Arg(4), Hash256Len>>}
      [] Called("ext_twox_128") -> {<<Arg(1), Arg(2)>>, <<Arg(3), Hash128Len>>}
      [] Called("ext_twox_256") \/ Called("ext_blake2_256")
            -> {<<Arg(1), Arg(2)>>, <<Arg(3), Hash256Len>>}
      [] Called("ext_ed25519_verify")
            -> {<<Arg(1), Arg(2)>>, <<Arg(3), SignatureLen>>, <<Arg(4), PubkeyLen>>}
      [] Called("ext_sandbox_memory_get") \/ Called("ext_sandbox_memory_set")
            -> {<<Arg(3), Arg(4)>>}
      [] OTHER -> {}

HandedOutside == \E r \in Handed : Outside(r[1], r[2])

Accessed ==
    CASE Called("ext_twox_128") \/ Called("ext_twox_256") \/ Called("ext_blake2_256")
            -> {r \in Handed : r[1] # Arg(1) \/ r[2] # 0 \/ r[2] # Arg(2)}
               \cup {<<Arg(1), Arg(2)>> : x \in {y \in {1} : Arg(2) # 0}}
      [] Called("ext_get_storage_into") -> {<<Arg(1), Arg(2)>>}
      [] Called("ext_enumerated_trie_root")
            -> {<<Arg(4), Hash256Len>>} \cup {<<Arg(2), 4>> : x \in {y \in {1} : Arg(3) # 0}}
      [] OTHER -> Handed

\* The calls that answer a range error without a trap.
Lenient == {"ext_print_utf8", "ext_print_hex", "ext_sandbox_memory_get",
            "ext_sandbox_memory_set"}
\* The calls a host panic can end before the range error is found.
CanPanic == {"ext_get_allocated_storage", "ext_enumerated_trie_root"}

C2_TrapLeavesMemoryUnmodified ==
    (last.call # "none" /\ last.res = "trap") => mem = last.pre.mem

\* C5 as stated: the heap cursor never exceeds the size of guest memory after
\* the grow.
C5_EndWithinCapacity ==
    (pc \in {"run_start", "invoke"} \/ entry # <<>>) => heap_end <= Len(mem)

\* C10 as stated: a module whose export `memory` is absent or is not a
\* memory makes call_in_wasm_module return a Runtime error, with no host
\* panic, no guest step and the externalities unchanged.
C10_NoMemoryExportIsRuntimeError ==
    (pc = "done" /\ module.imports_ok /\ module.mem_export # "memory")
        => result = Error("Runtime") /\ steps = 0 /\ ext = ext0


\* C3 as stated: of any two ext_malloc calls of one invocation, the later
\* returns a strictly greater pointer, at or past the end of the earlier
\* region.
C3_MallocStrictlyIncreasing ==
    \A i, j \in DOMAIN allocs :
        i < j => /\ allocs[j].ptr > allocs[i].ptr
                 /\ allocs[j].ptr >= allocs[i].ptr + allocs[i].size

\* Sum of the sizes of the first n recorded ext_malloc calls.
RECURSIVE SizesBefore(_)
SizesBefore(n) == IF n = 0 THEN 0 ELSE allocs[n].size + SizesBefore(n - 1)

\* C4: an ext_malloc that returns yields the cursor as it was and leaves it
\* advanced by the size (u32 arithmetic); ext_free changes neither cursor nor
\* memory; so when the guest only calls ext_malloc and ext_free, the k-th
\* pointer is the first heap byte, plus the payload once it is placed, plus
\* the sizes of the earlier ext_malloc calls, whatever was freed.
C4_BumpOnlyAllocation ==
    /\ (Called("ext_malloc") /\ last.res = "ok")
          => /\ last.ret = <<last.pre.end>>
             /\ heap_end = (last.pre.end + Arg(1)) % Word
             /\ mem = last.pre.mem
    /\ Called("ext_malloc") => last.res # "trap"
    /\ Called("ext_free")
          => last.res = "ok" /\ heap_end = last.pre.end /\ mem = last.pre.mem
    /\ \A k \in DOMAIN allocs :
          allocs[k].ptr = (module.initial * PageSize
                           + (IF allocs[k].phase = "invoke" THEN Len(data) ELSE 0)
                           + SizesBefore(k - 1)) % Word

\* C4 witness: a pointer was freed between two ext_malloc calls, and the
\* second ext_malloc returned.
C4_Witness_MallocAfterFree ==
    /\ Len(allocs) = 2 /\ allocs[1].size > 0 /\ steps = 3
    /\ Called("ext_malloc") /\ last.res = "ok"

\* The key (or prefix) a storage call names: the bytes of its first range
\* in guest memory when the call is made.
KeyArg == MemGet(last.pre.mem, Arg(1), Arg(2))

\* The latest mutation of key k among the first n of `muts`: <<"set", v>>,
\* <<"cleared">>, or <<"none">> when the guest has not touched k.
RECURSIVE LatestFor(_, _)
LatestFor(k, n) ==
    IF n = 0 THEN <<"none">>
    ELSE LET m == muts[n] IN
         IF m.op = "set" /\ m.key = k THEN <<"set", m.value>>
         ELSE IF m.op = "clear" /\ m.key = k THEN <<"cleared">>
         ELSE IF m.op = "clear_prefix" /\ StartsWith(k, m.key) THEN <<"cleared">>
         ELSE LatestFor(k, n - 1)

\* What the guest last did to the key the call names.
Latest == LatestFor(KeyArg, Len(muts))

\* The region ext_get_allocated_storage returned and the four bytes at
\* written_out share a byte.
OutOverlapsCopy(len) ==
    \E a \in 0 .. 3 : Arg(3) + a >= last.ret[1] /\ Arg(3) + a < last.ret[1] + len

\* The read calls of the round trip, for a key the guest last set to v
\* (copy tells whether ext_get_allocated_storage must leave a copy of v).
ReadsSee(v, copy) ==
    /\ Called("ext_get_allocated_storage")
          => /\ copy => /\ InRange(mem, last.ret[1], Len(v))
                        /\ MemGet(mem, last.ret[1], Len(v)) = v
             /\ FromLE(MemGet(mem, Arg(3), 4)) = Len(v)
    /\ (Called("ext_get_storage_into") /\ Arg(5) = 0 /\ Arg(4) >= Len(v))
          => last.ret = <<Len(v)>> /\ MemGet(mem, Arg(3), Len(v)) = v
    /\ Called("ext_exists_storage") => last.ret = <<1>>

\* The read calls of the round trip, for a key the guest last cleared.
ReadsMiss ==
    /\ Called("ext_get_allocated_storage")
          => last.ret = <<0>> /\ FromLE(MemGet(mem, Arg(3), 4)) = U32Max
    /\ Called("ext_get_storage_into") => last.ret = <<U32Max>> /\ mem = last.pre.mem
    /\ Called("ext_exists_storage") => last.ret = <<0>>

ReadCalls == {"ext_get_allocated_storage", "ext_get_storage_into", "ext_exists_storage"}

\* C6 as stated: after ext_set_storage(k, v) with no later mutation of k, a
\* read call that returns sees v (ext_get_allocated_storage returns a pointer
\* to a copy of v and writes len(v) at written_out); after a clear of k it
\* sees no value.
C6_StorageRoundTrip ==
    (last.call \in ReadCalls /\ last.res = "ok")
        => /\ Latest[1] = "set" => ReadsSee(Latest[2], TRUE)
           /\ Latest[1] = "cleared" => ReadsMiss

\* C6 as amended: the same, the copy of v being promised only when the four
\* bytes at written_out do not overlap the region returned (the length is
\* written after the copy, over it when they overlap).
C6_StorageRoundTripDisjoint ==
    (last.call \in ReadCalls /\ last.res = "ok")
        => /\ Latest[1] = "set"
                => ReadsSee(Latest[2], ~OutOverlapsCopy(Len(Latest[2])))
           /\ Latest[1] = "cleared" => ReadsMiss

\* C6 witness: the guest set a key to a non-empty value and got it back from
\* ext_get_allocated_storage.
C6_Witness_SetThenGet ==
    /\ Called("ext_get_allocated_storage") /\ last.res = "ok"
    /\ Latest[1] = "set" /\ Len(Latest[2]) > 0
    /\ ~OutOverlapsCopy(Len(Latest[2]))

\* C7: after ext_clear_prefix(p) returns, no key of the externalities starts
\* with p and every other key has the value it had before the call.
C7_ClearPrefix ==
    (Called("ext_clear_prefix") /\ last.res = "ok")
        => /\ \A k \in DOMAIN ext : ~StartsWith(k, KeyArg)
           /\ \A k \in DOMAIN last.pre.ext :
                 ~StartsWith(k, KeyArg) => k \in DOMAIN ext /\ ext[k] = last.pre.ext[k]
           /\ DOMAIN ext \subseteq DOMAIN last.pre.ext

\* C7 witness: ext_clear_prefix removed a key and kept another.
C7_Witness_RemovedAndKept ==
    /\ Called("ext_clear_prefix") /\ last.res = "ok" /\ Arg(2) > 0
    /\ DOMAIN ext # DOMAIN last.pre.ext /\ DOMAIN ext # {}

\* The externalities after the first n mutations of `muts`, applied in
\* order to the snapshot e.
RECURSIVE Replay(_, _)
Replay(e, n) ==
    IF n = 0 THEN e
    ELSE LET b == Replay(e, n - 1)
             m == muts[n]
         IN  IF m.op = "set" THEN [k \in DOMAIN b \cup {m.key} |->
                                      IF k = m.key THEN m.value ELSE b[k]]
             ELSE IF m.op = "clear" THEN [k \in DOMAIN b \ {m.key} |-> b[k]]
             ELSE [k \in {x \in DOMAIN b : ~StartsWith(x, m.key)} |-> b[k]]

\* C8: at every point of an invocation, also after a trap, the externalities
\* are the snapshot with the guest's mutations applied in program order, and
\* a storage call sees exactly that state.
C8_ProgramOrder ==
    /\ ext = Replay(ext0, Len(muts))
    /\ (last.call \in ReadCalls /\ last.res = "ok")
          => last.pre.ext = Replay(ext0, Len(muts))
    /\ (Called("ext_exists_storage") /\ last.res = "ok")
          => last.ret = <<IF KeyArg \in DOMAIN Replay(ext0, Len(muts)) THEN 1 ELSE 0>>

\* C8 witness: a set and then a prefix clear that removed what was set.
C8_Witness_TwoMutations ==
    /\ Called("ext_clear_prefix") /\ last.res = "ok"
    /\ Len(muts) = 2 /\ muts[1].op = "set" /\ muts[2].op = "clear_prefix"
    /\ muts[1].key \notin DOMAIN ext /\ ext # ext0

\* C11: when the export has returned a single i64 r, the call returns the
\* bytes of guest memory [low32(r), low32(r) + high32(r)) as they are once
\* the export has finished, or a Runtime error when that range is not inside
\* memory; when it has returned nothing or a value of another type, the call
\* returns InvalidReturn.
C11_ReturnDecoding ==
    (pc = "done" /\ returned[1] \in {"none", "i32", "i64"})
        => IF returned[1] = "i64"
           THEN IF returned[2] + returned[3] <= Len(mem)
                THEN /\ result.kind = "Ok"
                     /\ result.bytes = [i \in 1 .. returned[3] |-> mem[returned[2] + i]]
                ELSE result = Error("Runtime")
           ELSE result = Error("InvalidReturn")

\* C11 witness: the export returned the (offset, length) it was invoked with
\* and the call returned the two payload bytes.
C11_Witness_ReturnedPayload ==
    /\ pc = "done" /\ Len(data) = 2 /\ entry # <<>>
    /\ returned = <<"i64", entry[1], entry[2]>>
    /\ result.kind = "Ok" /\ result.bytes = data

\* C12: a step in which the guest traps (a trapping instruction in the start
\* function or in the export, or a host call signalling a user error) ends
\* the invocation with an error, and once the guest has trapped no further
\* step is taken.
C12_TrapIsError ==
    [][/\ returned'[1] = "trap" => pc' = "done" /\ result'.kind = "Err"
       /\ returned[1] # "trap"]_vars

\* C12 witness: the guest trapped in the invoked export after a host call
\* that returned, and the call ended with an error.
C12_Witness_TrapInExport ==
    /\ returned = <<"trap">> /\ entry # <<>> /\ steps > 0 /\ last = NoCall
    /\ pc = "done" /\ result.kind = "Err"

\* Position of a step of call_in_wasm_module in the order of the code.
Rank(p) ==
    CASE p = "instantiate" -> 0
      [] p = "export_memory" -> 1
      [] p = "new" -> 2
      [] p = "run_start" -> 3
      [] p = "invoke" -> 4
      [] OTHER -> 5

ValueAtCall ==
    IF KeyArg \in DOMAIN last.pre.ext THEN <<last.pre.ext[KeyArg]>> ELSE <<>>

\* Byte i (from 0) of the little-endian u32 v.
LEByte(v, i) == (v \div (ByteBase ^ i)) % ByteBase

\* C14: an ext_get_allocated_storage that returns, for a key with value v,
\* has allocated exactly len(v) bytes at the cursor, copied v to the pointer
\* it returns and then written len(v) as a little-endian u32 at written_out;
\* for a key with no value it has written u32::MAX at written_out, returned
\* 0 and left the cursor where it was.  The externalities and the rest of
\* guest memory are unchanged in both cases.
C14_GetAllocatedStorage ==
    (Called("ext_get_allocated_storage") /\ last.res = "ok")
        => /\ ext = last.pre.ext
           /\ Len(mem) = Len(last.pre.mem)
           /\ IF ValueAtCall # <<>>
              THEN LET v == ValueAtCall[1]
                       p == last.pre.end
                   IN  /\ last.ret = <<p>>
                       /\ heap_end = (p + Len(v)) % Word
                       /\ \A a \in 0 .. Len(mem) - 1 :
                             mem[a + 1] =
                                IF a >= Arg(3) /\ a < Arg(3) + 4
                                THEN LEByte(Len(v), a - Arg(3))
                                ELSE IF a >= p /\ a < p + Len(v) THEN v[a - p + 1]
                                ELSE last.pre.mem[a + 1]
              ELSE /\ last.ret = <<0>>
                   /\ heap_end = last.pre.end
                   /\ \A a \in 0 .. Len(mem) - 1 :
                         mem[a + 1] = IF a >= Arg(3) /\ a < Arg(3) + 4
                                      THEN LEByte(U32Max, a - Arg(3))
                                      ELSE last.pre.mem[a + 1]

\* C14 witness: the call returned a copy of a two-byte value of the
\* snapshot, with the length written clear of the copy.
C14_Witness_HitCopied ==
    /\ Called("ext_get_allocated_storage") /\ last.res = "ok" /\ muts = <<>>
    /\ ValueAtCall # <<>> /\ Len(ValueAtCall[1]) = 2
    /\ Arg(3) + 4 <= last.ret[1]

\* C15 as stated: ext_get_storage_into never ends in a host failure; for a
\* key with value v it copies min(buflen, len(v) - offset) bytes of v from
\* index offset into buf and returns that count; for a key with no value it
\* returns u32::MAX and writes nothing.
C15_GetStorageInto ==
    Called("ext_get_storage_into")
        => /\ last.res # "panic"
           /\ (last.res = "ok" /\ ValueAtCall = <<>>)
                 => last.ret = <<U32Max>> /\ mem = last.pre.mem
           /\ (last.res = "ok" /\ ValueAtCall # <<>>)
                 => LET v == ValueAtCall[1]
                        rest == Len(v) - Arg(5)
                        n == IF Arg(4) < rest THEN Arg(4) ELSE rest
                    IN  /\ last.ret = <<n>>
                        /\ \A a \in 0 .. Len(mem) - 1 :
                              mem[a + 1] = IF a >= Arg(3) /\ a < Arg(3) + n
                                           THEN v[Arg(5) + a - Arg(3) + 1]
                                           ELSE last.pre.mem[a + 1]

\* The bytes a hash call is given: guest memory [data, data + len) when the
\* call is made, the empty sequence when len = 0.
HashInput ==
    IF Arg(2) = 0 THEN <<>>
    ELSE [i \in 1 .. Arg(2) |-> last.pre.mem[Arg(1) + i]]

\* The digest the host function of the call computes over HashInput.
HostDigest ==
    CASE Called("ext_twox_128") -> twox_128(HashInput)
      [] Called("ext_twox_256") -> twox_256(HashInput)
      [] Called("ext_blake2_256") -> blake2_256(HashInput)

HashCalls == {"ext_twox_128", "ext_twox_256", "ext_blake2_256"}

\* C17: a hash call that returns has written at `out` the digest of its
\* host hash function over exactly the bytes of guest memory
\* [data, data + len) and nothing else; with len = 0 it writes the digest of
\* the empty sequence and returns whatever the data pointer is, provided
\* `out` is in range.
C17_HashAgreement ==
    last.call \in HashCalls
        => /\ last.res = "ok"
                => /\ \A a \in 0 .. Len(mem) - 1 :
                         mem[a + 1] = IF a >= Arg(3) /\ a < Arg(3) + Len(HostDigest)
                                      THEN HostDigest[a - Arg(3) + 1]
                                      ELSE last.pre.mem[a + 1]
                   /\ ext = last.pre.ext /\ heap_end = last.pre.end
           /\ (Arg(2) = 0 /\ Arg(3) + Len(HostDigest) <= Len(last.pre.mem))
                => last.res = "ok"

\* C17 witness: ext_blake2_256 hashed two bytes of guest memory and wrote a
\* digest that changed memory.
C17_Witness_Hashed ==
    /\ Called("ext_blake2_256") /\ last.res = "ok" /\ Arg(2) = 2
    /\ mem # last.pre.mem

\* C18 as a verdict: the signature, key and message bytes the call names.
SigBytes == [i \in 1 .. SignatureLen |-> last.pre.mem[Arg(3) + i]]
PubkeyBytes == [i \in 1 .. PubkeyLen |-> last.pre.mem[Arg(4) + i]]
MsgBytes == [i \in 1 .. Arg(2) |-> last.pre.mem[Arg(1) + i]]

\* C18: when the signature, key and message ranges are all inside guest
\* memory, ext_ed25519_verify returns 0 exactly when the bytes at sig are a
\* valid signature by the key at pk over the bytes at msg, and 5 otherwise;
\* it changes neither memory nor the externalities.
C18_Ed25519Verify ==
    (Called("ext_ed25519_verify")
     /\ Arg(1) + Arg(2) <= Len(last.pre.mem)
     /\ Arg(3) + SignatureLen <= Len(last.pre.mem)
     /\ Arg(4) + PubkeyLen <= Len(last.pre.mem))
        => /\ last.res = "ok"
           /\ last.ret = <<IF ed25519_verify(SigBytes, MsgBytes, PubkeyBytes)
                           THEN 0 ELSE 5>>
           /\ mem = last.pre.mem /\ ext = last.pre.ext /\ heap_end = last.pre.end

\* C18 witness: a valid signature over a non-empty message was accepted.
C18_Witness_ValidAccepted ==
    /\ Called("ext_ed25519_verify") /\ last.res = "ok" /\ last.ret = <<0>>
    /\ Arg(2) > 0

\* The sub-sandbox memory the call names, before and after the call.
SubBefore == last.pre.sb[Arg(1) + 1][1]
SubAfter == sandbox_store[Arg(1) + 1][1]

\* C19 as stated: ext_sandbox_memory_set(memidx, off, val, vlen), for a live
\* memory, with [val, val + vlen) inside the outer memory and
\* [off, off + vlen) inside the sub-memory, copies the outer bytes at val to
\* the sub-memory at off and returns ERR_OK, the outer memory unchanged.
C19_SandboxMemorySet ==
    (Called("ext_sandbox_memory_set")
     /\ memory_state(last.pre.sb, Arg(1)) = "ok"
     /\ Arg(3) + Arg(4) <= Len(last.pre.mem)
     /\ Arg(2) + Arg(4) <= Len(SubBefore))
        => /\ last.res = "ok" /\ last.ret = <<ERR_OK>>
           /\ mem = last.pre.mem
           /\ \A a \in 0 .. Len(SubBefore) - 1 :
                 SubAfter[a + 1] = IF a >= Arg(2) /\ a < Arg(2) + Arg(4)
                                   THEN last.pre.mem[Arg(3) + a - Arg(2) + 1]
                                   ELSE SubBefore[a + 1]

\* The ext_sandbox_memory_set call made in the step before the current one
\* with the same memory, offset and length as the current call: <<c>>, or
\* <<>> when there is none or its value range was not in the outer memory.
SetJustBefore ==
    IF copies = <<>> THEN <<>>
    ELSE LET c == copies[Len(copies)] IN
         IF /\ c.step = steps - 1
            /\ c.idx = Arg(1) /\ c.off = Arg(2) /\ c.len = Arg(4)
            /\ c.val + c.len <= Len(c.mem)
         THEN <<c>> ELSE <<>>

\* C20 as stated: ext_sandbox_memory_get(memidx, off, buf, buflen), for a
\* live memory and ranges in bounds, copies the sub-memory bytes at off to
\* the outer memory at buf and returns ERR_OK, the sub-memory unchanged; and
\* right after ext_sandbox_memory_set(m, off, val, n) the call
\* ext_sandbox_memory_get(m, off, buf, n) leaves outer [buf, buf + n) equal
\* to outer [val, val + n) as it was at the set.
C20_SandboxMemoryGetRoundTrip ==
    (Called("ext_sandbox_memory_get")
     /\ memory_state(last.pre.sb, Arg(1)) = "ok"
     /\ Arg(2) + Arg(4) <= Len(SubBefore)
     /\ Arg(3) + Arg(4) <= Len(last.pre.mem))
        => /\ last.res = "ok" /\ last.ret = <<ERR_OK>>
           /\ sandbox_store = last.pre.sb
           /\ \A a \in 0 .. Len(mem) - 1 :
                 mem[a + 1] = IF a >= Arg(3) /\ a < Arg(3) + Arg(4)
                              THEN SubBefore[Arg(2) + a - Arg(3) + 1]
                              ELSE last.pre.mem[a + 1]
           /\ SetJustBefore # <<>>
                 => \A i \in 1 .. Arg(4) :
                       mem[Arg(3) + i] = SetJustBefore[1].mem[SetJustBefore[1].val + i]

\* ---- sub-sandbox failures (C21 - C24)
InstanceCalls == {"ext_sandbox_invoke", "ext_sandbox_invoke_poc2",
                  "ext_sandbox_instance_teardown"}
InvokeCalls == {"ext_sandbox_invoke", "ext_sandbox_invoke_poc2"}
MemoryCalls == {"ext_sandbox_memory_get", "ext_sandbox_memory_set",
                "ext_sandbox_memory_teardown"}
\* The export name of an invoke call, the argument blob of invoke_poc2, and
\* the module and env-definition blob of instantiate, as the call finds
\* them; <<>> stands for a range outside the outer memory.
BlobAt(ptr, len) ==
    IF InRange(last.pre.mem, ptr, len) THEN <<MemGet(last.pre.mem, ptr, len)>> ELSE <<>>
NameRefused == BlobAt(Arg(2), Arg(3)) = <<>> \/ ~from_utf8(BlobAt(Arg(2), Arg(3))[1])
ArgsRefused == BlobAt(Arg(4), Arg(5)) = <<>> \/ ~decode_vec(BlobAt(Arg(4), Arg(5))[1])
EnvDefRefused == BlobAt(Arg(4), Arg(5)) = <<>> \/ ~decode_vec(BlobAt(Arg(4), Arg(5))[1])
Untouched == mem = last.pre.mem /\ sandbox_store = last.pre.sb

\* C21: in ext_sandbox_memory_get and ext_sandbox_memory_set on a live
\* memory, a range (offset, len) outside the nested memory or a range
\* (buf / val, len) outside the outer memory makes the call return
\* ERR_OUT_OF_BOUNDS without a trap and with both memories as they were; a
\* nested call that fails makes ext_sandbox_invoke and _poc2 return
\* ERR_EXECUTION without a trap; an unknown or torn-down instance or memory
\* index, and an export name, an argument blob or an env-definition blob
\* that does not decode, trap the outer guest.
C21_SandboxFailureClasses ==
    /\ (Called("ext_sandbox_memory_get") \/ Called("ext_sandbox_memory_set"))
           /\ memory_state(last.pre.sb, Arg(1)) = "ok"
           /\ (~InRange(SubBefore, Arg(2), Arg(4)) \/ Outside(Arg(3), Arg(4)))
          => last.res = "ok" /\ last.ret = <<ERR_OUT_OF_BOUNDS>> /\ Untouched
    /\ last.call \in InvokeCalls /\ last.nested = <<"err">>
          => last.res = "ok" /\ last.ret = <<ERR_EXECUTION>>
    /\ last.call \in MemoryCalls /\ memory_state(last.pre.sb, Arg(1)) # "ok"
          => last.res = "trap"
    /\ last.call \in InstanceCalls /\ instance_state(last.pre.si, Arg(1)) # "ok"
          => last.res = "trap"
    /\ last.call \in InvokeCalls /\ NameRefused => last.res = "trap"
    /\ Called("ext_sandbox_invoke_poc2") /\ ArgsRefused => last.res = "trap"
    /\ Called("ext_sandbox_instantiate") /\ EnvDefRefused => last.res = "trap"

\* C22: ext_sandbox_invoke on a live instance with a readable export name
\* returns ERR_EXECUTION when the nested call fails and ERR_OK otherwise,
\* also when the nested export returns a value.
C22_LegacyInvoke ==
    Called("ext_sandbox_invoke") /\ last.nested # <<>>
        => /\ last.res = "ok"
           /\ last.ret = IF last.nested = <<"err">> THEN <<ERR_EXECUTION>>
                         ELSE <<ERR_OK>>

\* The encoding of the value the nested export returned.
Encoded == EncodeReturn(last.nested[2])

\* C23: when the nested export of ext_sandbox_invoke_poc2 returns a value,
\* the call returns ERR_OK only if the encoding is at most ret_len bytes
\* long, and then the encoding lies in the outer memory at ret_buf and no
\* other byte changed; an encoding longer than ret_len traps the outer
\* guest and leaves its memory as it was; an encoding that fits, into a
\* range inside the memory, is written and ERR_OK returned.  When the
\* export returns no value the call returns ERR_OK and the memory is as it
\* was.
C23_InvokePoc2Return ==
    Called("ext_sandbox_invoke_poc2")
        => /\ last.nested = <<"none">>
                 => last.res = "ok" /\ last.ret = <<ERR_OK>> /\ mem = last.pre.mem
           /\ last.nested # <<>> /\ last.nested[1] = "value"
                 => /\ last.res = "ok"
                        => /\ last.ret = <<ERR_OK>>
                           /\ Len(Encoded) <= Arg(7)
                           /\ mem = MemSet(last.pre.mem, Arg(6), Encoded)
                    /\ Len(Encoded) > Arg(7)
                        => last.res = "trap" /\ mem = last.pre.mem
                    /\ Len(Encoded) <= Arg(7) /\ ~Outside(Arg(6), Len(Encoded))
                        => last.res = "ok"
                    /\ last.res # "ok" => mem = last.pre.mem

\* A returned value was written over bytes that differed from it.
C23_Witness_ValueWritten ==
    /\ Called("ext_sandbox_invoke_poc2")
    /\ last.nested # <<>> /\ last.nested[1] = "value"
    /\ last.res = "ok"
    /\ mem # last.pre.mem

\* ext_sandbox_instantiate / ext_sandbox_memory_new returned the index idx.
NewIndex(before, after, idx) ==
    /\ idx = Len(before)
    /\ Len(after) = Len(before) + 1
    /\ after[idx + 1] # <<>>
    /\ \A i \in 1 .. Len(before) : after[i] = before[i]

\* An index of the store stays what it was, or goes from live to torn down.
KeepsIndices(before, after) ==
    /\ Len(after) >= Len(before)
    /\ \A i \in 1 .. Len(before) : before[i] = <<>> => after[i] = <<>>

\* C24: in every step the instance indices and the memory indices only
\* grow, and a torn-down index stays torn down; ext_sandbox_instantiate
\* and ext_sandbox_memory_new that return hand out the next index, counted
\* from 0, and leave the other indices alone; a call on a torn-down instance
\* or memory index traps the outer guest.
C24_HandlesStep ==
    /\ KeepsIndices(sandbox_instances, sandbox_instances')
    /\ KeepsIndices(sandbox_store, sandbox_store')
    /\ last'.call = "ext_sandbox_instantiate" /\ last'.res = "ok" /\ last = NoCall
          => NewIndex(sandbox_instances, sandbox_instances', last'.ret[1])
    /\ last'.call = "ext_sandbox_memory_new" /\ last'.res = "ok" /\ last = NoCall
          => NewIndex(sandbox_store, sandbox_store', last'.ret[1])
    /\ last'.call \in InstanceCalls /\ last = NoCall
           /\ instance_state(sandbox_instances, last'.args[1]) = "torndown"
          => last'.res = "trap"
    /\ last'.call \in MemoryCalls /\ last = NoCall
           /\ memory_state(sandbox_store, last'.args[1]) = "torndown"
          => last'.res = "trap"

AdderCall == adder.last[1]
\* (s + a) mod 2^64 for the block of the last call.
WrappedSum == (AdderCall.block_data.state + AdderCall.block_data.add) % U64

\* C25: whenever execute is called with the hash of a parent head with
\* number n whose post_state is the hash of the block's state, it yields the
\* head with number n + 1, the given parent hash and
\* post_state = H((s + a) mod 2^64).
C25_ExecuteYieldsNextHead ==
    adder.last # <<>>
        /\ AdderCall.parent_hash = HeadData_hash(AdderCall.parent_head)
        /\ AdderCall.parent_head.post_state = hash_state(AdderCall.block_data.state)
        => /\ AdderCall.out.kind = "Ok"
           /\ AdderCall.out.head[1] =
                  [number |-> AdderCall.parent_head.number + 1,
                   parent_hash |-> AdderCall.parent_hash,
                   post_state |-> hash_state(WrappedSum)]

\* The block's state does not hash to the parent head's post_state.
Mismatch ==
    hash_state(AdderCall.block_data.state) # AdderCall.parent_head.post_state

\* C26 as stated: execute returns StateMismatch, and the head held stays,
\* exactly when the block's state does not hash to the post_state of the
\* parent head.
C26_StateMismatchExactly ==
    adder.last # <<>>
        => /\ AdderCall.out.kind = "StateMismatch" <=> Mismatch
           /\ Mismatch => AdderCall.out.head = <<>> /\ adder.head = <<AdderCall.parent_head>>

\* C26 for calls that meet what execute asserts of its arguments: when the
\* parent hash given is the hash of the parent head, execute returns
\* StateMismatch, and yields no head, exactly when the block's state does
\* not hash to the post_state of the parent head, and the same call with
\* any other `add` ends the same way.
C26_StateMismatchGivenParentHash ==
    adder.last # <<>> /\ AdderCall.parent_hash = HeadData_hash(AdderCall.parent_head)
        => /\ AdderCall.out.kind = "StateMismatch" <=> Mismatch
           /\ Mismatch => AdderCall.out.head = <<>> /\ adder.head = <<AdderCall.parent_head>>
           /\ \A a \in 0 .. U64 - 1 :
                 {o.kind : o \in execute(AdderCall.parent_hash, AdderCall.parent_head,
                                         [AdderCall.block_data EXCEPT !.add = a])}
                 = {o.kind : o \in execute(AdderCall.parent_hash, AdderCall.parent_head,
                                           AdderCall.block_data)}

\* A block was refused whose sum would have matched, and one was accepted
\* before it.
C26_Witness_Refused ==
    /\ adder.last # <<>>
    /\ AdderCall.parent_hash = HeadData_hash(AdderCall.parent_head)
    /\ AdderCall.out.kind = "StateMismatch"
    /\ hash_state(WrappedSum) = AdderCall.parent_head.post_state
    /\ AdderCall.block_data.add # 0

\* ---- the staking module (C27 - C30)
StakingLast == staking.last[1]
Storage == staking.st[1]
StakingCalled(op) == staking.last # <<>> /\ StakingLast.op = op

\* The existential-deposit law of a storage.
Law(s) ==
    \A a \in Accounts :
        /\ s.free[a] = <<>> \/ s.free[a][1] >= ExistentialDeposit
        /\ s.reserved[a] = <<>> \/ s.reserved[a][1] >= ExistentialDeposit

LeftAfter(from, amount) ==
    IF from - amount < ExistentialDeposit THEN 0 ELSE from - amount

\* C28: a transfer that succeeds charges the transactor value + CreationFee
\* when the destination had no free-balance entry, and value + TransferFee
\* when it had one (a rest below ExistentialDeposit being removed with the
\* account).
C28_TransferFee ==
    StakingCalled("transfer") /\ StakingLast.res = "Ok"
        => LET who == StakingLast.args[1]
               dest == lookup(StakingLast.pre, StakingLast.args[2])[1]
               fee == IF StakingLast.pre.free[dest] = <<>> THEN CreationFee
                      ELSE TransferFee
               from == free_balance(StakingLast.pre, who)
           IN  who # dest
                   => /\ from >= StakingLast.args[3] + fee
                      /\ free_balance(Storage, who)
                             = LeftAfter(from, StakingLast.args[3] + fee)

\* C29: a reserve that returns Ok has lowered the free balance by `value`
\* and raised the reserved balance by `value`; one that returns Err has
\* changed no balance.
C29_ReserveMoves ==
    StakingCalled("reserve")
        => LET who == StakingLast.args[1]
               value == StakingLast.args[2]
           IN  /\ StakingLast.res = "Ok"
                     => /\ free_balance(Storage, who)
                               = free_balance(StakingLast.pre, who) - value
                        /\ reserved_balance(Storage, who)
                               = reserved_balance(StakingLast.pre, who) + value
               /\ StakingLast.res = "Err" => Storage = StakingLast.pre

\* C30: can_reserve changes no storage, and it returns true exactly when
\* reserve, called in the same state with the same arguments, returns Ok.
C30_CanReserveAgrees ==
    StakingCalled("can_reserve")
        => /\ Storage = StakingLast.pre
           /\ \A o \in reserve(StakingLast.pre, StakingLast.args[1], StakingLast.args[2]) :
                 StakingLast.ret[1] <=> o.res = "Ok"

\* free + reserved of `who`, as a number.
Combined(s, who) == free_balance(s, who) + reserved_balance(s, who)

\* C31: slash(who, value) lowers free + reserved of `who` by exactly
\* min(value, free + reserved), takes from the free balance first, and
\* returns None when the whole value was deducted and Some(value - deducted)
\* otherwise.
C31_SlashDeducts ==
    StakingCalled("slash")
        => LET who == StakingLast.args[1]
               value == StakingLast.args[2]
               before == Combined(StakingLast.pre, who)
               deducted == Min(value, before)
           IN  /\ StakingLast.res = "Ok"
               /\ Combined(Storage, who) = before - deducted
               /\ free_balance(Storage, who)
                      = free_balance(StakingLast.pre, who)
                            - Min(value, free_balance(StakingLast.pre, who))
               /\ StakingLast.ret = IF deducted = value THEN <<>>
                                    ELSE <<value - deducted>>

\* ---- heap construction (C34)
\* The grow by max_heap_pages is refused for the module of the call.
GrowRejected == module.initial + max_heap_pages > module.maximum

\* C34: the step that constructs the heap either ends the call with a
\* Runtime error, exactly when the grow is refused, with no guest step taken
\* and the externalities as at the start, or sets the cursor to
\* initial pages * PageSize, the first byte after the memory as it was, and
\* appends max_heap_pages zeroed pages; and a call whose grow is refused
\* never runs guest code afterwards.
C34_HeapConstructionStep ==
    /\ pc = "new" /\ pc' # "new"
          => IF GrowRejected
             THEN /\ pc' = "done"
                  /\ result' = Error("Runtime")
                  /\ ext' = ext0 /\ mem' = mem
                  /\ steps' = 0 /\ entry' = <<>> /\ muts' = <<>>
                  /\ returned' = NotReturned
             ELSE /\ pc' = "run_start"
                  /\ heap_end' = module.initial * PageSize
                  /\ heap_end' = Len(mem)
                  /\ Len(mem') = Len(mem) + max_heap_pages * PageSize
                  /\ \A i \in 1 .. Len(mem') :
                        mem'[i] = IF i <= Len(mem) THEN mem[i] ELSE 0
                  /\ steps' = 0 /\ ext' = ext0
    /\ pc = "done" /\ GrowRejected => UNCHANGED vars

C34_HeapConstruction == [][C34_HeapConstructionStep]_vars

\* A call that ended with the Runtime error of a refused grow.
C34_Witness_GrowRefused ==
    /\ pc = "done"
    /\ module.imports_ok /\ module.mem_export = "memory"
    /\ GrowRejected
    /\ result = Error("Runtime")
    /\ steps = 0

\* ---- ext_enumerated_trie_root (C35)
\* The i-th length (i from 0) at lens_data, and the sum of the first n.
LenAt(i) == FromLE(MemGet(last.pre.mem, Arg(2) + 4 * i, 4))
RECURSIVE LensSum(_)
LensSum(n) == IF n = 0 THEN 0 ELSE LensSum(n - 1) + LenAt(n - 1)

\* Every length and every item of the call can be read: the lengths lie in
\* guest memory, and so does item i at values_data + (lens[0] + ... +
\* lens[i-1]) with lens[i] bytes.
LensReadable == \A i \in 0 .. Arg(3) - 1 : Arg(2) + 4 * i + 4 <= Len(last.pre.mem)
ItemsReadable ==
    \A i \in 0 .. Arg(3) - 1 :
        Arg(1) + LensSum(i) + LenAt(i) <= Len(last.pre.mem)
\* The items of the call, in order.
ItemsOfCall ==
    [i \in 1 .. Arg(3) |-> MemGet(last.pre.mem, Arg(1) + LensSum(i - 1), LenAt(i - 1))]

\* C35: ext_enumerated_trie_root traps, with memory as it was, when a
\* length, an item or the 32 bytes at `out` lie outside guest memory;
\* otherwise it returns and has written at `out` the ordered root of the
\* contiguous items, and nothing else.
C35_EnumeratedTrieRoot ==
    Called("ext_enumerated_trie_root")
        => IF LensReadable /\ ItemsReadable
           THEN IF Outside(Arg(4), Hash256Len)
                THEN last.res = "trap" /\ mem = last.pre.mem
                ELSE /\ last.res = "ok"
                     /\ mem = MemSet(last.pre.mem, Arg(4), ordered_trie_root(ItemsOfCall))
           ELSE last.res = "trap" /\ mem = last.pre.mem

\* ---- the adder chain (C40)
Chain == adder.chain[1]
ChainHead == adder.head[1]

\* C40: from a head with number n0 and post_state H(s0), after k executes
\* that yielded a head, each given the head held, its hash and a block whose
\* state is the state so far, the head held has number n0 + k, post_state
\* H((s0 + the adds) mod 2^64) and, once k > 0, the hash of the previous head
\* as parent_hash; and a call whose block's state does not hash to the
\* post_state of the head held yields no head.
C40_AdderChain ==
    adder.chain # <<>>
        => /\ Chain.follows
              => /\ ChainHead.number = Chain.n0 + Chain.k
                 /\ ChainHead.post_state = hash_state(Chain.state)
                 /\ Chain.k > 0 => ChainHead.parent_hash = HeadData_hash(Chain.prev[1])
           /\ adder.last # <<>> /\ Mismatch => AdderCall.out.kind # "Ok"

\* ---- contract host functions (C33)
HostCallLast == contract.last[1]
\* The u32 with the bits of a typed i32, and the i32 with the bits of a u32.
AsU32(v) == (v.v + Word) % Word
AsI32(r) == I32(IF r < Word \div 2 THEN r ELSE r - Word)
\* The slice holds an I32 for every declared parameter.
ArgsMatch ==
    /\ Len(HostCallLast.args) >= HostCallLast.func.params
    /\ \A i \in 1 .. HostCallLast.func.params : HostCallLast.args[i].ty = "I32"
ReturnedValue(v) == HostCallLast.out.kind = "Ok" /\ HostCallLast.out.ret = <<"Value", v>>
ReturnedUnit == HostCallLast.out.kind = "Ok" /\ HostCallLast.out.ret = <<"Unit">>
ReturnedErr == HostCallLast.out.kind = "Err" /\ HostCallLast.out.ret = <<>>

\* C33: a host function called with a typed value for each declared
\* parameter gives its body the values in declaration order, returns
\* Value(the result as a typed value) when the body yields Ok(result), Unit
\* when it declares no return type and the body yields Ok(()), and Err with no
\* value when the body yields Err; what the body wrote to the context before
\* it yielded stays written.
C33_HostFunctionMarshalling ==
    contract.last # <<>> /\ ArgsMatch
        => LET name == HostCallLast.func.name
               a == AsU32(HostCallLast.args[1])
               b == AsU32(HostCallLast.args[2])
               pre == HostCallLast.pre
               ctx == contract.ctx[1]
           IN CASE name = "test_value" ->
                       /\ ctx = pre
                       /\ IF b = 0 THEN ReturnedErr ELSE ReturnedValue(AsI32(a \div b))
                [] name = "test_unit" ->
                       \/ ReturnedUnit /\ ctx = (a + b) % Word
                       \/ HostCallLast.out.kind = "panic" /\ a + b >= Word /\ ctx = pre
                [] name = "ext_gas" ->
                       /\ ctx = pre
                       /\ IF a = 0 THEN ReturnedErr ELSE ReturnedUnit
                [] name = "writes_then_value" ->
                       /\ ctx = (pre + 1) % Word
                       /\ ReturnedErr \/ ReturnedValue(AsI32(a)) \/ ReturnedValue(I32(0 - 1))
                [] name = "writes_then_unit" ->
                       /\ ctx = (pre + 1) % Word
                       /\ ReturnedErr \/ ReturnedUnit

\* test_value was given -1 and 3, in that order, and returned 5.
C33_Witness_DividedInOrder ==
    /\ contract.last # <<>>
    /\ contract.calls = 2
    /\ HostCallLast.func.name = "test_value"
    /\ HostCallLast.args = <<I32(0 - 1), I32(3)>>
    /\ ReturnedValue(I32(5))

\* The free balances of all accounts, summed.
TotalFree(s) == free_balance(s, 1) + free_balance(s, 2)

\* C37: after any call of transfer, whether it succeeds or fails, the sum
\* of the free balances of all accounts is at most what it was before the
\* call (ReclaimRebate <= CreationFee in this configuration).
C37_TransferCreatesNoFunds ==
    StakingCalled("transfer") => TotalFree(Storage) <= TotalFree(StakingLast.pre)

\* ---- staking and nominating (C32, C38, C39)
\* How many times `who` occurs in a list of accounts.
Occurrences(v, who) == Cardinality({i \in 1 .. Len(v) : v[i] = who})

\* C32: whatever calls of stake, unstake, nominate and unnominate were made,
\* Intentions holds no account twice and no account of Intentions is a key
\* of Nominating.
C32_IntentionsDistinct ==
    staking.st # <<>> /\ "intentions" \in DOMAIN Storage
        => \A a \in Accounts :
              /\ Occurrences(Storage.intentions, a) <= 1
              /\ Occurrences(Storage.intentions, a) = 1 => Storage.nominating[a] = <<>>

\* Both accounts are in Intentions and one of them was just refused as a
\* nominator.
C32_Witness_BothStaked ==
    /\ StakingCalled("nominate")
    /\ StakingLast.res = "Err"
    /\ Len(Storage.intentions) = 2
    /\ staking.calls = MaxNominationCalls

\* C38: whatever calls of nominate and unnominate were made, a nominates t
\* exactly when a occurs in NominatorsFor[t], where it then occurs once; and
\* a nominate or unnominate that fails leaves both maps as they were.
C38_NominationsConsistent ==
    staking.st # <<>> /\ "nominating" \in DOMAIN Storage
        => /\ \A a, t \in Accounts :
                 /\ Storage.nominating[a] = <<t>> <=> Occurrences(Storage.nominators_for[t], a) >= 1
                 /\ Occurrences(Storage.nominators_for[t], a) <= 1
           /\ (StakingCalled("nominate") \/ StakingCalled("unnominate")) /\ StakingLast.res # "Ok"
                 => /\ Storage.nominating = StakingLast.pre.nominating
                    /\ Storage.nominators_for = StakingLast.pre.nominators_for

\* Both accounts nominated account 1 and the first of them withdrew, so
\* that the second took its place in the list.
C38_Witness_SwapRemoved ==
    /\ StakingCalled("unnominate")
    /\ StakingLast.res = "Ok"
    /\ StakingLast.pre.nominators_for[1] = <<1, 2>>
    /\ Storage.nominators_for[1] = <<2>>
    /\ Storage.nominating = (1 :> <<>> @@ 2 :> <<1>>)

\* C39: every account that is in Intentions or is a key of Nominating has
\* unlock_block = Staked, whatever calls were made since.
C39_StakedStayLocked ==
    staking.st # <<>> /\ "intentions" \in DOMAIN Storage
        => \A a \in Accounts :
              Contains(Storage.intentions, a) \/ Storage.nominating[a] # <<>>
                 => unlock_block(Storage, a) = "Staked"

\* ---- sessions and eras (C36)
\* The index the staking module sees when the session changes: the one the
\* session module has moved to.
SessionIndexSeen == StakingLast.pre.session_index + 1

\* A new era is due: ForcingNewEra is set, or the rotation is not normal, or
\* the sessions since the era length last changed are a multiple of
\* SessionsPerEra.
EraDue ==
    \/ StakingLast.pre.forcing_new_era
    \/ ~StakingLast.args[1]
    \/ /\ StakingLast.pre.sessions_per_era # 0
       /\ (SessionIndexSeen - StakingLast.pre.last_era_length_change)
              % StakingLast.pre.sessions_per_era = 0

\* C36: a session change starts a new era (CurrentEra goes up by exactly 1)
\* when ForcingNewEra is set, or the rotation is not normal, or (session
\* index - LastEraLengthChange) mod SessionsPerEra = 0, and leaves CurrentEra
\* alone otherwise; ForcingNewEra is unset after it; and SessionsPerEra
\* changes only in a session change that starts an era, to the value
\* set_sessions_per_era stored.
C36_NewEraExactlyWhenDue ==
    staking.last # <<>> /\ "session_index" \in DOMAIN Storage
        => /\ StakingCalled("on_session_change")
              => /\ Storage.current_era
                        = StakingLast.pre.current_era + IF EraDue THEN 1 ELSE 0
                 /\ ~Storage.forcing_new_era
           /\ Storage.sessions_per_era # StakingLast.pre.sessions_per_era
              => /\ StakingCalled("on_session_change")
                 /\ Storage.current_era = StakingLast.pre.current_era + 1
                 /\ StakingLast.pre.next_sessions_per_era = <<Storage.sessions_per_era>>

\* The guest only allocates and frees.
NextHeap ==
    \/ Instantiate
    \/ ExportMemory
    \/ FunctionExecutor_new
    \/ PlacePayload
    \/ ExportReturns
    \/ GuestTrap
    \/ Resume
    \/ HeapOnly_malloc
    \/ HeapOnly_free

SpecHeap == Init /\ [][NextHeap]_vars

\* The guest only creates, writes, reads and tears down sandbox memories.
NextSandbox ==
    \/ Instantiate
    \/ ExportMemory
    \/ FunctionExecutor_new
    \/ PlacePayload
    \/ ExportReturns
    \/ GuestTrap
    \/ Resume
    \/ SandboxOnly_memory_new
    \/ SandboxOnly_memory_get
    \/ SandboxOnly_memory_set
    \/ SandboxOnly_memory_teardown

SpecSandbox == Init /\ [][NextSandbox]_vars

\* The guest only creates, invokes and tears down nested instances, and
\* creates and tears down sandbox memories.
NextInstances ==
    \/ Instantiate
    \/ ExportMemory
    \/ FunctionExecutor_new
    \/ PlacePayload
    \/ ExportReturns
    \/ GuestTrap
    \/ Resume
    \/ SandboxInstantiate(MaxInstanceSteps)
    \/ SandboxInstanceTeardown(MaxInstanceSteps)
    \/ SandboxInvoke(MaxInstanceSteps)
    \/ SandboxInvokePoc2(MaxInstanceSteps)
    \/ SandboxMemoryNew(MaxInstanceSteps)
    \/ SandboxMemoryTeardown(MaxInstanceSteps)

SpecInstances == Init /\ [][NextInstances]_vars

====
